---- MODULE Spec2Model ----
(***************************************************************************)
(* Model of the interactive session core of ai-code-connect               *)
(* (src/src/sdk-session.ts, first SDKSession class): the tool -> PTY      *)
(* manager registry, the line-based command loop, the attach/detach       *)
(* bridge with its stdin filtering pipeline and detach-trigger            *)
(* classification, and terminal restoration.                              *)
(*                                                                         *)
(* Byte strings are sequences of byte values; a JavaScript string is a    *)
(* sequence of UTF-16 code units.  The PersistentPtyManager class         *)
(* (persistent-pty.ts) is not part of the sources at hand; its operations *)
(* are modelled from the specification's description of a Session.        *)
(***************************************************************************)
EXTENDS Integers, Sequences, FiniteSets, TLC

(***************************************************************************)
(* Bounds of the model                                                     *)
(***************************************************************************)
\* number of pieces a stdin chunk of the bridge specification is built from
MaxPieces == 2
\* number of commands the user enters at the prompt
MaxCmds == 3
\* number of subprocesses spawned in one run
MaxSpawns == 2
\* value of Date.now() when the program starts (epoch milliseconds, > 500)
StartTime == 1000
\* the clock is observed up to StartTime + MaxElapsed
MaxElapsed == 1000
\* number of characters of a command or prompt typed by paced injection
MaxCmdLen == 1
\* output chunks printed by all subprocesses together, in the command loop
MaxOut == 1
\* the same in the replay specification
MaxReplayOut == 3

(***************************************************************************)
(* Bytes and characters                                                    *)
(***************************************************************************)
ESC == 27
LBRACKET == 91
QUESTION == 63
GREATER == 62
SEMICOLON == 59
CH_c == 99
CH_u == 117
CH_I == 73
CH_O == 79
CH_R == 82
CH_a == 97
CR == 13
\* a byte that is not valid UTF-8 on its own (a lone continuation byte)
BAD_BYTE == 128
\* U+FFFD, what Buffer.toString() yields for an invalid byte
REPLACEMENT_CHAR == 65533

\* DETACH_KEYS
CTRL_BRACKET == 29
CTRL_BACKSLASH == 28
CTRL_CARET == 30
CTRL_UNDERSCORE == 31
ESCAPE == 27

Digit(n) == 48 + n
IsDigitOrSemi(c) == (c >= 48 /\ c <= 57) \/ c = SEMICOLON

\* CSI_U_DETACH_SEQS
CSI_U_DETACH_SEQS ==
  << <<ESC, LBRACKET, Digit(9), Digit(3), SEMICOLON, Digit(5), CH_u>>,
     <<ESC, LBRACKET, Digit(9), Digit(2), SEMICOLON, Digit(5), CH_u>>,
     <<ESC, LBRACKET, Digit(5), Digit(4), SEMICOLON, Digit(5), CH_u>>,
     <<ESC, LBRACKET, Digit(4), Digit(5), SEMICOLON, Digit(5), CH_u>>,
     <<ESC, LBRACKET, Digit(5), Digit(4), SEMICOLON, Digit(6), CH_u>>,
     <<ESC, LBRACKET, Digit(4), Digit(5), SEMICOLON, Digit(6), CH_u>> >>

FOCUS_IN_SEQ == <<ESC, LBRACKET, CH_I>>
FOCUS_OUT_SEQ == <<ESC, LBRACKET, CH_O>>

\* the double-escape window in milliseconds
ESCAPE_WINDOW_MS == 500

(***************************************************************************)
(* Strings                                                                 *)
(***************************************************************************)
\* data.toString(): UTF-8 decoding, one code unit per ASCII byte and
\* U+FFFD for a byte that is not valid UTF-8
ToChar(b) == IF b < 128 THEN b ELSE REPLACEMENT_CHAR

BufferToString(data) == [k \in 1..Len(data) |-> ToChar(data[k])]

\* s has the literal p at index i
HasAt(s, p, i) ==
  /\ i >= 1
  /\ i + Len(p) - 1 <= Len(s)
  /\ \A k \in 1..Len(p) : s[i + k - 1] = p[k]

\* String.prototype.includes
Includes(s, p) == \E i \in 1..(Len(s) + 1) : HasAt(s, p, i)

\* first index >= j of s that holds no digit and no semicolon ([\d;]* is greedy)
RECURSIVE RunEnd(_, _)
RunEnd(s, j) ==
  IF j > Len(s) THEN j
  ELSE IF IsDigitOrSemi(s[j]) THEN RunEnd(s, j + 1) ELSE j

\* length of the match of a pattern at index i of s, 0 when there is none
\*   "focusIn", "focusOut": the literal sequences
\*   "daResponse":  /\x1b\[\?[\d;]*[uc]/
\*   "da2Response": /\x1b\[>[\d;]*c/
\*   "csiU":        /\x1b\[[\d;]*u/
MatchLen(pat, s, i) ==
  CASE pat = "focusIn"  -> IF HasAt(s, FOCUS_IN_SEQ, i) THEN Len(FOCUS_IN_SEQ) ELSE 0
    [] pat = "focusOut" -> IF HasAt(s, FOCUS_OUT_SEQ, i) THEN Len(FOCUS_OUT_SEQ) ELSE 0
    [] pat = "daResponse" ->
         IF HasAt(s, <<ESC, LBRACKET, QUESTION>>, i)
         THEN LET j == RunEnd(s, i + 3)
              IN IF j <= Len(s) /\ s[j] \in {CH_u, CH_c} THEN j - i + 1 ELSE 0
         ELSE 0
    [] pat = "da2Response" ->
         IF HasAt(s, <<ESC, LBRACKET, GREATER>>, i)
         THEN LET j == RunEnd(s, i + 3)
              IN IF j <= Len(s) /\ s[j] = CH_c THEN j - i + 1 ELSE 0
         ELSE 0
    [] pat = "csiU" ->
         IF HasAt(s, <<ESC, LBRACKET>>, i)
         THEN LET j == RunEnd(s, i + 2)
              IN IF j <= Len(s) /\ s[j] = CH_u THEN j - i + 1 ELSE 0
         ELSE 0

\* indices of s that survive the removal of every match of pat, scanning
\* left to right without overlap (split(p).join('') and replace(/re/g, ''))
RECURSIVE KeptIndices(_, _, _)
KeptIndices(pat, s, i) ==
  IF i > Len(s) THEN << >>
  ELSE LET m == MatchLen(pat, s, i)
       IN IF m > 0 THEN KeptIndices(pat, s, i + m)
          ELSE <<i>> \o KeptIndices(pat, s, i + 1)

\* A string derived from a chunk is kept as the positions of the chunk's
\* bytes it is made of; CharsAt gives its characters.
CharsAt(data, pos) == [k \in 1..Len(pos) |-> ToChar(data[pos[k]])]

RemoveAll(pat, data, pos) ==
  LET kept == KeptIndices(pat, CharsAt(data, pos), 1)
  IN [k \in 1..Len(kept) |-> pos[kept[k]]]

\* variant: the ESC[>...c replacement is missing
FilterOrder_NoDa2 == <<"focusIn", "focusOut", "daResponse", "csiU">>

\* the filtering pipeline of onStdinData, in the order of the code
FilterOrder == <<"focusIn", "focusOut", "daResponse", "da2Response", "csiU">>

RECURSIVE FilterFrom(_, _, _)
FilterFrom(n, data, pos) ==
  IF n > Len(FilterOrder) THEN pos
  ELSE FilterFrom(n + 1, data, RemoveAll(FilterOrder[n], data, pos))

FilterChunk(data) == FilterFrom(1, data, [k \in 1..Len(data) |-> k])

(***************************************************************************)
(* Detach-trigger classification of onStdinData                            *)
(***************************************************************************)
\* "Check for CSI u detach sequences": on the filtered string
HasCsiUDetach(str) ==
  \E n \in 1..Len(CSI_U_DETACH_SEQS) :
    str = CSI_U_DETACH_SEQS[n] \/ Includes(str, CSI_U_DETACH_SEQS[n])

\* variant: only the first byte of the chunk is compared
HasDetachKey_FirstByteOnly(data) ==
  \/ data[1] = CTRL_BRACKET
  \/ data[1] = CTRL_BACKSLASH
  \/ data[1] = CTRL_CARET
  \/ data[1] = CTRL_UNDERSCORE

\* "Check for detach keys": on the bytes of the chunk
HasDetachKey(data) ==
  \E i \in 1..Len(data) :
    \/ data[i] = CTRL_BRACKET
    \/ data[i] = CTRL_BACKSLASH
    \/ data[i] = CTRL_CARET
    \/ data[i] = CTRL_UNDERSCORE

\* variant: only a chunk that is exactly two escapes counts
HasDoubleEscape_WholeChunkOnly(data) ==
  Len(data) = 2 /\ data[1] = ESCAPE /\ data[2] = ESCAPE

\* "Double escape detection": on the bytes of the chunk
HasDoubleEscape(data) ==
  /\ Len(data) >= 2
  /\ \E i \in 1..(Len(data) - 1) : data[i] = ESCAPE /\ data[i + 1] = ESCAPE

IsSingleEscape(data) == Len(data) = 1 /\ data[1] = ESCAPE

\* variant: the window includes its end
EscapeWithinWindow_Inclusive(t, lastEscapeTime) ==
  t - lastEscapeTime <= ESCAPE_WINDOW_MS

\* "Single escape with timing"
EscapeWithinWindow(t, lastEscapeTime) == t - lastEscapeTime < ESCAPE_WINDOW_MS

\* What onStdinData does with a chunk:
\*   "drop"    return before any classification (pure noise)
\*   "detach"  performDetach()
\*   "forward" manager.write(str)
Classify(data, t, lastEscapeTime) ==
  LET raw == BufferToString(data)
      str == CharsAt(data, FilterChunk(data))
  IN IF raw = FOCUS_IN_SEQ \/ raw = FOCUS_OUT_SEQ THEN "drop"
     ELSE IF Len(str) = 0 THEN "drop"
     ELSE IF HasCsiUDetach(str) THEN "detach"
     ELSE IF HasDetachKey(data) THEN "detach"
     ELSE IF HasDoubleEscape(data) THEN "detach"
     ELSE IF IsSingleEscape(data) /\ EscapeWithinWindow(t, lastEscapeTime) THEN "detach"
     ELSE "forward"

\* variant: the time of a single escape is not recorded
NextEscapeTime_Never(data, t) == 0

\* variant: every forwarded chunk opens the window
NextEscapeTime_AnyChunk(data, t) == t

\* lastEscapeTime after a chunk that was forwarded
NextEscapeTime(data, t) == IF IsSingleEscape(data) THEN t ELSE 0

(***************************************************************************)
(* Tools, messages                                                         *)
(***************************************************************************)
\* AVAILABLE_TOOLS
Tools == {"claude", "gemini"}

\* getDefaultTool(): the tool that is active when the session starts
DefaultTool == "claude"

\* the tool that the comment in AVAILABLE_TOOLS gives as the one to add
ExtraTool == "codex"
AllTools == Tools \cup {ExtraTool}

\* the lists of tools considered for AVAILABLE_TOOLS: as built, and with the
\* third tool added
ToolLists == {Tools, AllTools}

MAX_HISTORY_SIZE == 1000

\* "Enforce history size limit": while (length > MAX_HISTORY_SIZE) shift()
\* variant: the newest messages are the ones removed
EnforceLimit_DropNewest(h) ==
  IF Len(h) > MAX_HISTORY_SIZE THEN SubSeq(h, 1, MAX_HISTORY_SIZE) ELSE h

\* while (conversationHistory.length > MAX_HISTORY_SIZE) conversationHistory.shift()
EnforceLimit(h) ==
  IF Len(h) > MAX_HISTORY_SIZE
  THEN SubSeq(h, Len(h) - MAX_HISTORY_SIZE + 1, Len(h))
  ELSE h

Message(tool, role, origin) == [tool |-> tool, role |-> role, origin |-> origin]

(***************************************************************************)
(* Session (PersistentPtyManager), modelled from the specification        *)
(***************************************************************************)
\* capacity of a session's output buffer, in output chunks
BufCap == 2

\* what a subprocess can print: text, a sequence that hides the cursor, or
\* a focus-report sequence
OutChunks == {"text", "hideCursor", "focus"}

DEFAULT_COLUMNS == 80
DEFAULT_ROWS == 24
WIDE_COLUMNS == 120
WIDE_ROWS == 40

\* terminal sizes considered; the terminal starts with the first
InitialSize == <<DEFAULT_COLUMNS, DEFAULT_ROWS>>
Sizes == {InitialSize, <<WIDE_COLUMNS, WIDE_ROWS>>}

\* size: the columns and rows of the PTY, at first those of the terminal
NewSession(tool, size) ==
  [tool |-> tool, state |-> "SPAWNING", attached |-> FALSE, pty |-> TRUE,
   buf |-> << >>, received |-> << >>, size |-> size]

\* a manager whose spawn failed: no process, no handle
FailedSession(tool) ==
  [tool |-> tool, state |-> "DEAD", attached |-> FALSE, pty |-> FALSE,
   buf |-> << >>, received |-> << >>, size |-> InitialSize]

IsDead(s) == s.state = "DEAD"

SessionAttach(s) ==
  IF IsDead(s) THEN s ELSE [s EXCEPT !.state = "ATTACHED", !.attached = TRUE]

\* variant: detach() that does not look at the state
SessionDetach_Always(s) == [s EXCEPT !.state = "DETACHED", !.attached = FALSE]

SessionDetach(s) ==
  IF IsDead(s) THEN s ELSE [s EXCEPT !.state = "DETACHED", !.attached = FALSE]

\* subprocess exit and kill: the handle is released, the state is final
SessionExit(s) ==
  [s EXCEPT !.state = "DEAD", !.attached = FALSE, !.pty = FALSE]

\* variant: nothing is ever dropped
AppendBounded_Unbounded(buf, chunk) == Append(buf, chunk)

\* oldest content is dropped first on overflow
AppendBounded(buf, chunk) ==
  LET b == Append(buf, chunk)
  IN IF Len(b) > BufCap THEN SubSeq(b, Len(b) - BufCap + 1, Len(b)) ELSE b

\* received: everything the subprocess has printed since it was started
SessionOutput(s, chunk) ==
  [s EXCEPT !.buf = AppendBounded(s.buf, chunk),
            !.received = Append(s.received, chunk)]

(***************************************************************************)
(* State                                                                   *)
(***************************************************************************)
VARIABLES
  pc,                  \* where the command loop is
  cmds,                \* number of commands entered so far
  activeTool,          \* this.activeTool
  sessions,            \* every PersistentPtyManager object created so far
  ptyManagers,         \* this.ptyManagers: tool -> index in sessions, 0 = no entry
  conversationHistory, \* this.conversationHistory
  requestInProgress,   \* this.requestInProgress
  rl,                  \* this.rl is an open readline interface
  isTTY,               \* process.stdin.isTTY
  historyAtCall,       \* the history when the sendToTool call in flight began
  legacy,              \* the fields of the second SDKSession class of the file
  availableTools,      \* the names in AVAILABLE_TOOLS
  termSize,            \* <<process.stdout.columns, process.stdout.rows>>
  adapters,            \* tools that this.registry has an adapter for
  rawMode,             \* stdin is in raw mode
  cursorShown,         \* the terminal shows its cursor
  entering,            \* locals of enterInteractiveMode across its await
  bridge,              \* closure of runInteractiveSession
  now,                 \* Date.now()
  stdinChunk,          \* chunk read from stdin, not yet handled (<< >> = none)
  inject,              \* pending timers of the paced injections
  fx                   \* effects of the last step other than a clock tick, in order

vars == <<pc, cmds, activeTool, sessions, ptyManagers, conversationHistory,
          requestInProgress, rl, isTTY, historyAtCall, legacy, availableTools, termSize, adapters, rawMode, cursorShown,
          entering, bridge, now, stdinChunk, inject, fx>>

Fx(op, arg) == [op |-> op, arg |-> arg]

NoBridge ==
  [sid |-> 0, stdinListener |-> FALSE, resizeListener |-> FALSE,
   detached |-> FALSE, cleanedUp |-> FALSE, lastEscapeTime |-> 0]

NoEntering == [sid |-> 0, isReattach |-> FALSE, isFirstLaunch |-> FALSE]

\* the registries considered: every tool has an adapter, or the default
\* tool only
AdapterSets == {Tools, {DefaultTool}}

\* the second SDKSession class after construction: activeTool = 'claude',
\* runningProcesses empty (tool -> index in procs, 0 = no entry), no
\* session flags; procs: every PTY process spawned so far; attached: the
\* process the terminal is bridged to while pc is "interactive"
LegacyInit ==
  [pc |-> "prompt", activeTool |-> DefaultTool,
   runningProcesses |-> [t \in Tools |-> 0], procs |-> << >>, attached |-> 0,
   claudeHasSession |-> FALSE, geminiHasSession |-> FALSE]

Init ==
  /\ pc = "prompt"
  /\ cmds = 0
  /\ activeTool = DefaultTool
  /\ sessions = << >>
  /\ ptyManagers = [t \in AllTools |-> 0]
  /\ conversationHistory = << >>
  /\ requestInProgress = FALSE
  /\ rl = TRUE
  /\ isTTY = TRUE
  /\ historyAtCall = << >>
  /\ legacy = LegacyInit
  /\ availableTools = Tools
  /\ termSize = InitialSize
  /\ adapters \in AdapterSets
  /\ rawMode = FALSE
  /\ cursorShown = TRUE
  /\ entering = NoEntering
  /\ bridge = NoBridge
  /\ now = StartTime
  /\ stdinChunk = << >>
  /\ inject = << >>
  /\ fx = << >>

\* variant: a registered live manager is not recognised
NoLiveManager_Always(t) == TRUE

\* the manager registered for a tool is missing or dead
NoLiveManager(t) == ptyManagers[t] = 0 \/ IsDead(sessions[ptyManagers[t]])

(***************************************************************************)
(* Effects on the terminal                                                 *)
(***************************************************************************)
Ops(effects) == [k \in 1..Len(effects) |-> effects[k].op]

HasOp(effects, op) == \E k \in 1..Len(effects) : effects[k].op = op

LastIndexOf(effects, opset) ==
  LET idx == {k \in 1..Len(effects) : effects[k].op \in opset}
  IN IF idx = {} THEN 0 ELSE CHOOSE k \in idx : \A j \in idx : j <= k

\* raw mode after the effects: the last setRawMode call decides
RawAfter(raw, effects) ==
  LET k == LastIndexOf(effects, {"rawOn", "rawOff"})
  IN IF k = 0 THEN raw ELSE effects[k].op = "rawOn"

\* cursor visibility after the effects: the last show/hide written decides
CursorAfter(shown, effects) ==
  LET k == LastIndexOf(effects, {"showCursor", "hideCursor"})
  IN IF k = 0 THEN shown ELSE effects[k].op = "showCursor"

\* process.stdout.write of subprocess output
StdoutChunks(chunks) ==
  [k \in 1..Len(chunks) |->
     Fx(IF chunks[k] = "hideCursor" THEN "hideCursor" ELSE "stdout", <<chunks[k]>>)]

(***************************************************************************)
(* getOrCreateManager                                                      *)
(***************************************************************************)
\* variant: a manager is created and spawned on every call
GetOrCreateManager_AlwaysSpawn(tool, spawnOk) ==
  [sessions |-> Append(sessions,
                       IF spawnOk THEN NewSession(tool, termSize) ELSE FailedSession(tool)),
   ptyManagers |-> [ptyManagers EXCEPT ![tool] = Len(sessions) + 1],
   sid |-> Len(sessions) + 1,
   spawned |-> TRUE,
   threw |-> ~spawnOk,
   error |-> IF spawnOk THEN "" ELSE "spawn"]

\* variant: the adapter is not looked up
GetOrCreateManager_NoAdapterCheck(tool, spawnOk) ==
  IF NoLiveManager(tool)
  THEN [sessions |-> Append(sessions,
                            IF spawnOk THEN NewSession(tool, termSize) ELSE FailedSession(tool)),
        ptyManagers |-> [ptyManagers EXCEPT ![tool] = Len(sessions) + 1],
        sid |-> Len(sessions) + 1,
        spawned |-> TRUE,
        threw |-> ~spawnOk,
        error |-> IF spawnOk THEN "" ELSE "spawn"]
  ELSE [sessions |-> sessions, ptyManagers |-> ptyManagers,
        sid |-> ptyManagers[tool], spawned |-> FALSE, threw |-> FALSE,
        error |-> ""]

\* spawnOk: whether manager.spawn() succeeds.  Without an adapter for the
\* tool the call throws before a manager is constructed.  The manager is
\* put into the map before it is spawned.
GetOrCreateManager(tool, spawnOk) ==
  IF NoLiveManager(tool)
  THEN IF tool \notin adapters
       THEN [sessions |-> sessions, ptyManagers |-> ptyManagers,
             sid |-> 0, spawned |-> FALSE, threw |-> TRUE,
             error |-> "unknownTool"]
       ELSE [sessions |-> Append(sessions,
                                 IF spawnOk THEN NewSession(tool, termSize) ELSE FailedSession(tool)),
             ptyManagers |-> [ptyManagers EXCEPT ![tool] = Len(sessions) + 1],
             sid |-> Len(sessions) + 1,
             spawned |-> TRUE,
             threw |-> ~spawnOk,
             error |-> IF spawnOk THEN "" ELSE "spawn"]
  ELSE [sessions |-> sessions, ptyManagers |-> ptyManagers,
        sid |-> ptyManagers[tool], spawned |-> FALSE, threw |-> FALSE,
        error |-> ""]

\* what the terminal and the caller see of a getOrCreateManager call
GetOrCreateFx(g) ==
  (IF g.spawned THEN << Fx("spawn", <<g.sid>>) >> ELSE << >>)
  \o (IF g.threw THEN << Fx("throw", <<g.error>>) >> ELSE << >>)

\* spawn outcomes to consider, within the bound on spawned subprocesses
SpawnChoices(tool) ==
  IF NoLiveManager(tool) /\ tool \in adapters
  THEN IF Len(sessions) < MaxSpawns THEN BOOLEAN ELSE {}
  ELSE {TRUE}

(***************************************************************************)
(* runInteractiveSession                                                   *)
(***************************************************************************)
\* variant: cleanup() that leaves raw mode on
CleanupFx_NoRawOff(tty) ==
  << Fx("removeStdinListener", << >>), Fx("removeResizeListener", << >>),
     Fx("clearLine", << >>), Fx("focusOff", << >>), Fx("pasteOff", << >>),
     Fx("kbdReset", << >>), Fx("showCursor", << >>),
     Fx("rlClose", << >>), Fx("setupReadline", << >>) >>

\* the effects of cleanup(), in order
CleanupFx(tty) ==
  << Fx("removeStdinListener", << >>), Fx("removeResizeListener", << >>),
     Fx("clearLine", << >>), Fx("focusOff", << >>), Fx("pasteOff", << >>),
     Fx("kbdReset", << >>), Fx("showCursor", << >>) >>
  \o (IF tty THEN << Fx("rawOff", << >>) >> ELSE << >>)
  \o << Fx("rlClose", << >>), Fx("setupReadline", << >>) >>

\* variant: performDetach() that does not call manager.detach()
PerformDetachFx_KeepAttached(tty, capture) ==
  << Fx("removeStdinListener", << >>), Fx("snapshot", << >>) >>
  \o CleanupFx(tty)
  \o (IF capture THEN << Fx("historyPush", << >>) >> ELSE << >>)
  \o << Fx("clearLine", << >>), Fx("notice", << >>), Fx("resolve", << >>) >>

\* variant: performDetach() that restores the terminal before it detaches
PerformDetachFx_CleanupFirst(tty, capture) ==
  << Fx("removeStdinListener", << >>) >>
  \o CleanupFx(tty)
  \o << Fx("snapshot", << >>), Fx("detach", << >>) >>
  \o (IF capture THEN << Fx("historyPush", << >>) >> ELSE << >>)
  \o << Fx("clearLine", << >>), Fx("notice", << >>), Fx("resolve", << >>) >>

\* the effects of performDetach(), in order; capture: the buffer snapshot
\* is non-empty and its cleaned text is longer than 20 characters
PerformDetachFx(tty, capture) ==
  << Fx("removeStdinListener", << >>), Fx("snapshot", << >>),
     Fx("detach", << >>) >>
  \o CleanupFx(tty)
  \o (IF capture THEN << Fx("historyPush", << >>) >> ELSE << >>)
  \o << Fx("clearLine", << >>), Fx("notice", << >>), Fx("resolve", << >>) >>

\* manager.write(str): nothing reaches a dead session
ManagerWriteFx(sid, s, str, pos, origin) ==
  IF IsDead(s) THEN << >> ELSE << Fx("ptyWrite", <<sid, str, pos, origin>>) >>

\* state after a step of the bridge with the given effects
ApplyBridgeFx(effects) ==
  LET sid == bridge.sid
  IN /\ fx' = effects
     /\ sessions' = IF HasOp(effects, "detach")
                    THEN [sessions EXCEPT ![sid] = SessionDetach(sessions[sid])]
                    ELSE sessions
     /\ rawMode' = RawAfter(rawMode, effects)
     /\ cursorShown' = CursorAfter(cursorShown, effects)
     /\ rl' = IF HasOp(effects, "setupReadline") THEN TRUE ELSE rl
     /\ conversationHistory' =
          IF HasOp(effects, "historyPush")
          THEN EnforceLimit(Append(conversationHistory,
                                   Message(activeTool, "assistant", "interactive")))
          ELSE conversationHistory
     /\ pc' = IF HasOp(effects, "resolve") THEN "prompt" ELSE pc

\* enterInteractiveMode up to its await of the rainbow animation
\* (/i, /claude -i, /gemini -i)
EnterInteractiveMode(tool) ==
  /\ pc = "prompt"
  /\ cmds < MaxCmds
  /\ \E spawnOk \in SpawnChoices(tool) :
       LET g == GetOrCreateManager(tool, spawnOk)
           m == g.sessions[g.sid]
       IN /\ sessions' = g.sessions
          /\ ptyManagers' = g.ptyManagers
          /\ IF g.threw
             THEN /\ pc' = "crashed"
                  /\ entering' = NoEntering
                  /\ rl' = rl
             ELSE /\ pc' = "animating"
                  /\ entering' = [sid |-> g.sid,
                                  isReattach |-> (~m.attached /\ ~IsDead(m)),
                                  isFirstLaunch |-> g.spawned]
                  /\ rl' = FALSE
          /\ fx' = GetOrCreateFx(g)
  /\ activeTool' = tool
  /\ cmds' = cmds + 1
  /\ UNCHANGED <<conversationHistory, requestInProgress, isTTY, historyAtCall, legacy, availableTools, termSize, adapters, rawMode,
                 cursorShown, bridge, now, stdinChunk, inject>>

\* the synchronous start of runInteractiveSession for session sid, after
\* the given effects; ses is the session table at that point
RunInteractiveSession(sid, ses, effects) ==
  IF ~ses[sid].pty
  THEN /\ pc' = "crashed"
       /\ bridge' = NoBridge
       /\ rawMode' = rawMode
       /\ fx' = effects \o << Fx("reject", << >>) >>
  ELSE /\ pc' = "interactive"
       /\ bridge' = [sid |-> sid, stdinListener |-> TRUE,
                     resizeListener |-> TRUE, detached |-> FALSE,
                     cleanedUp |-> FALSE, lastEscapeTime |-> 0]
       /\ rawMode' = RawAfter(rawMode, IF isTTY THEN << Fx("rawOn", << >>) >> ELSE << >>)
       /\ fx' = effects \o (IF isTTY THEN << Fx("rawOn", << >>) >> ELSE << >>)

\* variant: the buffer is replayed as it is
ReplayFilter_KeepFocus(buf) == buf

\* focus-report sequences are removed from the replayed buffer
ReplayFilter(buf) == SelectSeq(buf, LAMBDA c : c # "focus")

\* enterInteractiveMode after the animation: replay, attach, bridge
EnterInteractiveAttach ==
  /\ pc = "animating"
  /\ LET sid == entering.sid
         m == sessions[sid]
         replay == entering.isReattach /\ Len(m.buf) > 0
         effects == IF replay
                    THEN << Fx("clearScreen", << >>) >> \o StdoutChunks(ReplayFilter(m.buf))
                    ELSE << >>
         ses == [sessions EXCEPT ![sid] = SessionAttach(m)]
     IN /\ sessions' = ses
        /\ cursorShown' = CursorAfter(cursorShown, effects)
        /\ RunInteractiveSession(sid, ses, effects \o << Fx("attach", <<sid>>) >>)
  /\ entering' = NoEntering
  /\ UNCHANGED <<cmds, activeTool, ptyManagers, conversationHistory,
                 requestInProgress, rl, isTTY, historyAtCall, legacy, availableTools, termSize, adapters, now, stdinChunk, inject>>

(***************************************************************************)
(* onStdinData                                                             *)
(***************************************************************************)
\* the chunks typed in the specification of the command loop: a key that
\* is forwarded, a detach key, a focus report
CoreChunks == { <<CH_a>>, <<CTRL_BRACKET>>, FOCUS_IN_SEQ }

\* the chunks typed in the specification of the escape window
KeyChunks ==
  { <<CH_a>>, <<ESCAPE>>, <<ESCAPE, ESCAPE>>, <<CTRL_BRACKET>>, FOCUS_IN_SEQ,
    <<ESCAPE>> \o FOCUS_IN_SEQ }

\* terminal reports and fragments of them
DA_RESPONSE == <<ESC, LBRACKET, QUESTION, Digit(1), SEMICOLON, Digit(2), CH_c>>
DA2_RESPONSE == <<ESC, LBRACKET, GREATER, Digit(1), CH_c>>
KEYBOARD_ACK == <<ESC, LBRACKET, QUESTION, Digit(1), CH_u>>
CURSOR_REPORT == <<ESC, LBRACKET, Digit(1), SEMICOLON, Digit(1), CH_R>>

\* what the chunks of the single-chunk specification are made of
Pieces ==
  { <<CH_a>>, <<ESCAPE>>, <<ESCAPE, ESCAPE>>, <<BAD_BYTE>>,
    <<CTRL_BRACKET>>, <<CTRL_BACKSLASH>>, <<CTRL_CARET>>, <<CTRL_UNDERSCORE>>,
    FOCUS_IN_SEQ, FOCUS_OUT_SEQ, DA_RESPONSE, DA2_RESPONSE, KEYBOARD_ACK,
    CURSOR_REPORT,
    <<ESC, LBRACKET>>, <<CH_I>>, <<CH_u>> }
  \cup { CSI_U_DETACH_SEQS[n] : n \in 1..Len(CSI_U_DETACH_SEQS) }

RECURSIVE ChunksOf(_)
ChunksOf(n) ==
  IF n = 0 THEN { << >> }
  ELSE LET shorter == ChunksOf(n - 1)
       IN shorter \cup { c \o p : c \in shorter, p \in Pieces }

\* chunks in which the removal of one report joins the bytes around it
NestedChunks ==
  { <<ESC, LBRACKET>> \o FOCUS_IN_SEQ \o <<CH_I>>,
    <<ESC, LBRACKET>> \o DA_RESPONSE \o <<CH_I>>,
    <<ESC, LBRACKET, QUESTION, Digit(1)>> \o FOCUS_OUT_SEQ \o <<CH_c>>,
    <<ESC, LBRACKET, Digit(9)>> \o KEYBOARD_ACK \o <<Digit(3), SEMICOLON, Digit(5), CH_u>>,
    <<CH_a, ESC, LBRACKET, GREATER>> \o FOCUS_IN_SEQ \o <<Digit(1), CH_c, CH_a>> }

Chunks == (ChunksOf(MaxPieces) \ { << >> }) \cup NestedChunks

\* the listener is called with a chunk; the step's effects start with the
\* chunk, the time of the call and lastEscapeTime as the call finds it
StdinHandled(data, kind) ==
  /\ pc = "interactive"
  /\ bridge.stdinListener
  /\ Classify(data, now, bridge.lastEscapeTime) = kind
  /\ UNCHANGED <<cmds, activeTool, ptyManagers, requestInProgress, isTTY, historyAtCall, legacy, availableTools, termSize, adapters,
                 entering, now, inject>>

StdinFx(data) == << Fx("stdin", <<data, now, bridge.lastEscapeTime>>) >>

\* the chunk is terminal noise only: return
StdinDrop(data) ==
  /\ StdinHandled(data, "drop")
  /\ fx' = StdinFx(data)
  /\ UNCHANGED <<pc, sessions, conversationHistory, rl, rawMode, cursorShown,
                 bridge>>

\* variant: the filtered chunk is written before performDetach()
\* variant: no detached flag and no cleanedUp flag, and a chunk that matches
\* runs performDetach for a second check as well
StdinDetach_Twice(data) ==
  /\ StdinHandled(data, "detach")
  /\ \E meaningful \in BOOLEAN :
       LET once == PerformDetachFx(isTTY,
                      Len(sessions[bridge.sid].buf) > 0 /\ meaningful)
       IN ApplyBridgeFx(StdinFx(data) \o once \o once)
  /\ bridge' = [bridge EXCEPT !.detached = TRUE, !.cleanedUp = TRUE,
                              !.stdinListener = FALSE, !.resizeListener = FALSE]

StdinDetach_WriteFirst(data) ==
  /\ StdinHandled(data, "detach")
  /\ ~bridge.detached
  /\ \E meaningful \in BOOLEAN :
       LET pos == FilterChunk(data)
       IN ApplyBridgeFx(StdinFx(data) \o
                        ManagerWriteFx(bridge.sid, sessions[bridge.sid],
                                       CharsAt(data, pos), pos, "stdin") \o
                        PerformDetachFx(isTTY,
                           Len(sessions[bridge.sid].buf) > 0 /\ meaningful))
  /\ bridge' = [bridge EXCEPT !.detached = TRUE, !.cleanedUp = TRUE,
                              !.stdinListener = FALSE, !.resizeListener = FALSE]

\* the chunk is a detach trigger: performDetach()
StdinDetach(data) ==
  /\ StdinHandled(data, "detach")
  /\ ~bridge.detached
  /\ \E meaningful \in BOOLEAN :
       ApplyBridgeFx(StdinFx(data) \o
                     PerformDetachFx(isTTY,
                        Len(sessions[bridge.sid].buf) > 0 /\ meaningful))
  /\ bridge' = [bridge EXCEPT !.detached = TRUE, !.cleanedUp = TRUE,
                              !.stdinListener = FALSE, !.resizeListener = FALSE]

\* the chunk is forwarded: manager.write(str)
StdinForward(data) ==
  /\ StdinHandled(data, "forward")
  /\ LET pos == FilterChunk(data)
     IN ApplyBridgeFx(StdinFx(data) \o
                      ManagerWriteFx(bridge.sid, sessions[bridge.sid],
                                     CharsAt(data, pos), pos, "stdin"))
  /\ bridge' = [bridge EXCEPT !.lastEscapeTime = NextEscapeTime(data, now)]

OnStdinData(data) ==
  /\ \/ StdinDrop(data)
     \/ StdinDetach(data)
     \/ StdinForward(data)
  /\ UNCHANGED stdinChunk

(***************************************************************************)
(* Environment: the clock and the subprocesses                             *)
(***************************************************************************)
TickDeltas == {ESCAPE_WINDOW_MS - 1, ESCAPE_WINDOW_MS}

\* time passes while the bridge is up (the clock is read by onStdinData only)
Tick ==
  /\ pc = "interactive"
  /\ \E d \in TickDeltas :
       /\ now + d <= StartTime + MaxElapsed
       /\ now' = now + d
  /\ UNCHANGED <<pc, cmds, activeTool, sessions, ptyManagers,
                 conversationHistory, requestInProgress, rl, isTTY, historyAtCall, legacy, availableTools, termSize, adapters, rawMode,
                 cursorShown, entering, bridge, stdinChunk, inject, fx>>

Running == pc \notin {"crashed", "exited"}

\* time passes until a typing timer is due
TimerWait ==
  /\ Running
  /\ \E k \in 1..Len(inject) :
       /\ inject[k].due > now
       /\ now' = inject[k].due
  /\ UNCHANGED <<pc, cmds, activeTool, sessions, ptyManagers,
                 conversationHistory, requestInProgress, rl, isTTY, historyAtCall, legacy, availableTools, termSize, adapters, rawMode,
                 cursorShown, entering, bridge, stdinChunk, inject, fx>>

RECURSIVE TotalOut(_)
TotalOut(k) == IF k = 0 THEN 0 ELSE Len(sessions[k].received) + TotalOut(k - 1)

\* a live subprocess prints a chunk: buffered, and shown while attached;
\* limit: the number of chunks the run may print
PtyOutput(sid, chunk, limit) ==
  /\ Running
  /\ TotalOut(Len(sessions)) < limit
  /\ ~IsDead(sessions[sid])
  /\ sessions' = [sessions EXCEPT ![sid] = SessionOutput(sessions[sid], chunk)]
  /\ fx' = IF sessions[sid].attached THEN StdoutChunks(<<chunk>>) ELSE << >>
  /\ cursorShown' = CursorAfter(cursorShown, fx')
  /\ UNCHANGED <<pc, cmds, activeTool, ptyManagers, conversationHistory,
                 requestInProgress, rl, isTTY, historyAtCall, legacy, availableTools, termSize, adapters, rawMode, entering, bridge,
                 now, stdinChunk, inject>>

\* variant: the exit also removes the manager from the map
PtyExit_Unregisters(sid) ==
  /\ Running
  /\ ~IsDead(sessions[sid])
  /\ sessions' = [sessions EXCEPT ![sid] = SessionExit(sessions[sid])]
  /\ ptyManagers' = [t \in AllTools |-> IF ptyManagers[t] = sid THEN 0 ELSE ptyManagers[t]]
  /\ fx' = << Fx("exitNotice", <<sid>>) >>
  /\ UNCHANGED <<pc, cmds, activeTool, conversationHistory,
                 requestInProgress, rl, isTTY, historyAtCall, legacy, availableTools, termSize, adapters,
                 rawMode, cursorShown, entering, bridge, now, stdinChunk, inject>>

\* a live subprocess exits: the session is dead and the onExit callback
\* registered by getOrCreateManager prints a notice
PtyExit(sid) ==
  /\ Running
  /\ ~IsDead(sessions[sid])
  /\ sessions' = [sessions EXCEPT ![sid] = SessionExit(sessions[sid])]
  /\ fx' = << Fx("exitNotice", <<sid>>) >>
  /\ UNCHANGED <<pc, cmds, activeTool, ptyManagers, conversationHistory,
                 requestInProgress, rl, isTTY, historyAtCall, legacy, availableTools, termSize, adapters, rawMode, cursorShown, entering,
                 bridge, now, stdinChunk, inject>>

\* variant: the handler always sets the default size
ResizeTo_Default(size) == <<DEFAULT_COLUMNS, DEFAULT_ROWS>>

\* process.stdout.columns || 80, process.stdout.rows || 24
ResizeTo(size) ==
  << IF size[1] = 0 THEN DEFAULT_COLUMNS ELSE size[1],
     IF size[2] = 0 THEN DEFAULT_ROWS ELSE size[2] >>

\* onResize of the bridge for session sid: resize the PTY if there is one
OnResizeFx(sid, size) ==
  IF sessions[sid].pty
  THEN << Fx("ptyResize", <<sid, ResizeTo(size)>>) >>
  ELSE << >>

\* the terminal is resized: process.stdout emits 'resize', which runs the
\* onResize listener of the bridge if it is registered
TerminalResize(size) ==
  /\ Running
  /\ size # termSize
  /\ termSize' = size
  /\ fx' = IF bridge.resizeListener THEN OnResizeFx(bridge.sid, size) ELSE << >>
  /\ sessions' = IF HasOp(fx', "ptyResize")
                 THEN [sessions EXCEPT ![bridge.sid].size = fx'[1].arg[2]]
                 ELSE sessions
  /\ UNCHANGED <<pc, cmds, activeTool, ptyManagers, conversationHistory,
                 requestInProgress, rl, isTTY, historyAtCall, legacy, availableTools, adapters, rawMode, cursorShown,
                 entering, bridge, now, stdinChunk, inject>>

(***************************************************************************)
(* Paced injection (//command and /forwardi)                               *)
(***************************************************************************)
SLASH == 47

\* the text typed into the session, character by character: the command or
\* prompt followed by a carriage return
FullCommand == << SLASH >> \o [k \in 1..(MaxCmdLen - 1) |-> CH_a] \o << CR >>

\* the startup delay that the adapter of a tool gives: none (0) for the
\* default tool, SlowStartup for the others
SlowStartup == 1500
StartupDelay(tool) == IF tool = DefaultTool THEN 0 ELSE SlowStartup

REATTACH_DELAY == 100
DEFAULT_STARTUP_DELAY == 2500
COMMAND_PACE == 20
PROMPT_PACE == 5

\* variant: any entry of the map counts as a session to reattach to
IsReattach_AnyEntry(tool) == ptyManagers[tool] # 0

\* existingManager !== undefined && !existingManager.isDead(), taken before
\* getOrCreateManager is called
IsReattach(tool) == ptyManagers[tool] # 0 /\ ~IsDead(sessions[ptyManagers[tool]])

\* isReattach ? 100 : (adapter?.startupDelay || 2500)
SendDelay(isReattach, tool) ==
  IF isReattach THEN REATTACH_DELAY
  ELSE IF StartupDelay(tool) = 0 THEN DEFAULT_STARTUP_DELAY ELSE StartupDelay(tool)

\* the delay between two characters: setTimeout(typeNextChar, 20) for a
\* command, setTimeout(typeNextChar, 5) for a prompt
Pace(kind) == IF kind = "command" THEN COMMAND_PACE ELSE PROMPT_PACE

\* a typing timer: the session it writes to, the characters left, when it
\* fires next; start, fresh and typed record when the timer was set, whether
\* the session was spawned for it and what it has written to a live session
NewTimer(sid, kind, tool, spawned) ==
  [sid |-> sid, rest |-> FullCommand, kind |-> kind,
   due |-> now + SendDelay(IsReattach(tool), tool),
   start |-> now, fresh |-> spawned, typed |-> << >>]

\* enterInteractiveModeWithCommand / enterInteractiveModeWithPrompt:
\* get the manager, attach, start the typing timer, bridge
EnterInteractiveModeWith(tool, kind) ==
  \E spawnOk \in SpawnChoices(tool) :
    LET g == GetOrCreateManager(tool, spawnOk)
        ses == [g.sessions EXCEPT ![g.sid] = SessionAttach(g.sessions[g.sid])]
    IN /\ ptyManagers' = g.ptyManagers
       /\ IF g.threw
          THEN /\ pc' = "crashed"
               /\ sessions' = g.sessions
               /\ fx' = GetOrCreateFx(g)
               /\ UNCHANGED <<rl, inject, bridge, rawMode>>
          ELSE /\ sessions' = ses
               /\ rl' = FALSE
               /\ inject' = Append(inject, NewTimer(g.sid, kind, tool, g.spawned))
               /\ RunInteractiveSession(g.sid, ses,
                    (IF g.spawned THEN << Fx("spawn", <<g.sid>>) >> ELSE << >>)
                    \o << Fx("attach", <<g.sid>>) >>)

\* //command at the prompt: the rainbow animation is awaited first
SlashSlashCommand ==
  /\ pc = "prompt"
  /\ cmds < MaxCmds
  /\ pc' = "preCommand"
  /\ cmds' = cmds + 1
  /\ fx' = << >>
  /\ UNCHANGED <<activeTool, sessions, ptyManagers, conversationHistory,
                 requestInProgress, rl, isTTY, historyAtCall, legacy, availableTools, termSize, adapters, rawMode, cursorShown, entering,
                 bridge, now, stdinChunk, inject>>

EnterInteractiveModeWithCommand ==
  /\ pc = "preCommand"
  /\ EnterInteractiveModeWith(activeTool, "command")
  /\ UNCHANGED <<cmds, activeTool, conversationHistory, requestInProgress,
                 isTTY, historyAtCall, legacy, availableTools, termSize, adapters, cursorShown, entering, now, stdinChunk>>

\* a typing timer fires, at or after the time it was set for: typeNextChar
TypeNextChar(k) ==
  /\ Running
  /\ k \in 1..Len(inject)
  /\ now >= inject[k].due
  /\ LET j == inject[k]
     IN IF Len(j.rest) > 0
        THEN /\ fx' = << Fx("managerWrite", <<j.sid, Head(j.rest), j.kind>>) >>
                      \o ManagerWriteFx(j.sid, sessions[j.sid], << Head(j.rest) >>,
                                        << >>, j.kind)
             /\ inject' = [inject EXCEPT
                             ![k].rest = Tail(j.rest),
                             ![k].due = now + Pace(j.kind),
                             ![k].typed = IF IsDead(sessions[j.sid]) THEN j.typed
                                          ELSE Append(j.typed, Head(j.rest))]
        ELSE /\ fx' = << >>
             /\ inject' = SubSeq(inject, 1, k - 1) \o SubSeq(inject, k + 1, Len(inject))
  /\ UNCHANGED <<pc, cmds, activeTool, sessions, ptyManagers,
                 conversationHistory, requestInProgress, rl, isTTY, historyAtCall, legacy, availableTools, termSize, adapters, rawMode,
                 cursorShown, entering, bridge, now, stdinChunk>>

(***************************************************************************)
(* sendToTool                                                              *)
(***************************************************************************)
\* manager.kill(): the subprocess is terminated
KillFx(sid, silent) ==
  IF silent THEN << Fx("kill", <<sid>>) >>
  ELSE << Fx("kill", <<sid>>), Fx("exitNotice", <<sid>>) >>

\* variant: the managers of all tools are killed and removed
SendToToolBegin_KillAll(tool, origin) ==
  IF requestInProgress
  THEN /\ fx' = << Fx("pleaseWait", << >>) >>
       /\ UNCHANGED <<pc, sessions, ptyManagers, conversationHistory,
                      requestInProgress, historyAtCall>>
  ELSE /\ requestInProgress' = TRUE
       /\ historyAtCall' = conversationHistory
       /\ conversationHistory' =
            EnforceLimit(Append(conversationHistory, Message(tool, "user", origin)))
       /\ sessions' = [k \in 1..Len(sessions) |->
                         IF IsDead(sessions[k]) THEN sessions[k]
                         ELSE SessionExit(sessions[k])]
       /\ ptyManagers' = [t \in AllTools |->
                            IF NoLiveManager(t) THEN ptyManagers[t] ELSE 0]
       /\ fx' = IF ~NoLiveManager(tool) THEN KillFx(ptyManagers[tool], TRUE)
                ELSE << >>
       /\ pc' = "sending"

\* variant: the killed manager stays in the map
SendToToolBegin_KeepEntry(tool, origin) ==
  IF requestInProgress
  THEN /\ fx' = << Fx("pleaseWait", << >>) >>
       /\ UNCHANGED <<pc, sessions, ptyManagers, conversationHistory,
                      requestInProgress, historyAtCall>>
  ELSE /\ requestInProgress' = TRUE
       /\ historyAtCall' = conversationHistory
       /\ conversationHistory' =
            EnforceLimit(Append(conversationHistory, Message(tool, "user", origin)))
       /\ IF ~NoLiveManager(tool)
          THEN /\ sessions' = [sessions EXCEPT
                                 ![ptyManagers[tool]] = SessionExit(sessions[ptyManagers[tool]])]
               /\ fx' = KillFx(ptyManagers[tool], TRUE)
               /\ UNCHANGED ptyManagers
          ELSE /\ fx' = << >>
               /\ UNCHANGED <<sessions, ptyManagers>>
       /\ pc' = "sending"

\* variant: no check of the request flag
SendToToolBegin_NoLock(tool, origin) ==
  /\ requestInProgress' = TRUE
  /\ historyAtCall' = conversationHistory
  /\ conversationHistory' =
       EnforceLimit(Append(conversationHistory, Message(tool, "user", origin)))
  /\ IF ~NoLiveManager(tool)
     THEN /\ sessions' = [sessions EXCEPT
                            ![ptyManagers[tool]] = SessionExit(sessions[ptyManagers[tool]])]
          /\ ptyManagers' = [ptyManagers EXCEPT ![tool] = 0]
          /\ fx' = KillFx(ptyManagers[tool], TRUE)
     ELSE /\ fx' = << >>
          /\ UNCHANGED <<sessions, ptyManagers>>
  /\ pc' = "sending"

\* sendToTool up to its await of adapter.send, for the tool that is active
\* when it is called; origin: the message is a typed line ("send") or the
\* prompt built by handleForward ("forward")
SendToToolBegin(tool, origin) ==
  IF requestInProgress
  THEN /\ fx' = << Fx("pleaseWait", << >>) >>
       /\ UNCHANGED <<pc, sessions, ptyManagers, conversationHistory,
                      requestInProgress, historyAtCall>>
  ELSE /\ requestInProgress' = TRUE
       /\ historyAtCall' = conversationHistory
       /\ conversationHistory' =
            EnforceLimit(Append(conversationHistory, Message(tool, "user", origin)))
       /\ IF ~NoLiveManager(tool)
          THEN /\ sessions' = [sessions EXCEPT
                                 ![ptyManagers[tool]] = SessionExit(sessions[ptyManagers[tool]])]
               /\ ptyManagers' = [ptyManagers EXCEPT ![tool] = 0]
               /\ fx' = KillFx(ptyManagers[tool], TRUE)
          ELSE /\ fx' = << >>
               /\ UNCHANGED <<sessions, ptyManagers>>
       /\ pc' = "sending"

\* a regular line at the prompt
SendRegular ==
  /\ pc = "prompt"
  /\ cmds < MaxCmds
  /\ cmds' = cmds + 1
  /\ SendToToolBegin(activeTool, "send")
  /\ UNCHANGED <<activeTool, rl, isTTY, legacy, availableTools, termSize, adapters, rawMode, cursorShown, entering, bridge,
                 now, stdinChunk, inject>>

\* sendToTool called at any time, also while a request is in flight
SendToToolAnyTime ==
  /\ pc \in {"prompt", "sending"}
  /\ cmds < MaxCmds
  /\ cmds' = cmds + 1
  /\ SendToToolBegin(activeTool, "send")
  /\ UNCHANGED <<activeTool, rl, isTTY, legacy, availableTools, termSize, adapters, rawMode, cursorShown,
                 entering, bridge, now, stdinChunk, inject>>

\* adapter.send settles (without an adapter, the throw before it): the
\* response is recorded, or the user message is removed again; the request
\* flag is cleared either way
SendToToolEnd(ok) ==
  /\ pc = "sending"
  /\ ok => activeTool \in adapters
  /\ conversationHistory' =
       IF ok
       THEN EnforceLimit(Append(conversationHistory,
                                Message(activeTool, "assistant", "send")))
       ELSE SubSeq(conversationHistory, 1, Len(conversationHistory) - 1)
  /\ requestInProgress' = FALSE
  /\ historyAtCall' = << >>
  /\ pc' = "prompt"
  /\ fx' = << >>
  /\ UNCHANGED <<cmds, activeTool, sessions, ptyManagers, rl, isTTY, legacy, availableTools, termSize, adapters, rawMode,
                 cursorShown, entering, bridge, now, stdinChunk, inject>>

(***************************************************************************)
(* handleForward                                                           *)
(***************************************************************************)
AssistantIndices(h) == {k \in 1..Len(h) : h[k].role = "assistant"}

HasResponse(h) == AssistantIndices(h) # {}

\* the search from the newest message back: the index of the first
\* assistant message met at or before k, 0 if there is none
RECURSIVE LastAssistantIndex(_, _)
LastAssistantIndex(h, k) ==
  IF k = 0 THEN 0
  ELSE IF h[k].role = "assistant" THEN k
  ELSE LastAssistantIndex(h, k - 1)

\* [...history].reverse().find(m => m.role === 'assistant')
LastResponse(h) == h[LastAssistantIndex(h, Len(h))]

\* AVAILABLE_TOOLS.map(t => t.name).filter(t => t !== sourceTool)
OtherTools(sourceTool) == availableTools \ {sourceTool}

\* variant: a target is picked whenever none is named
ForwardTarget_AlwaysAuto(sourceTool, arg) ==
  IF arg \in OtherTools(sourceTool) THEN arg
  ELSE CHOOSE t \in OtherTools(sourceTool) : TRUE

\* the target of a forward: the first argument when it names another tool,
\* else the only other tool; "" when a target has to be given
ForwardTarget(sourceTool, arg) ==
  IF arg \in OtherTools(sourceTool) THEN arg
  ELSE IF Cardinality(OtherTools(sourceTool)) = 1
       THEN CHOOSE t \in OtherTools(sourceTool) : TRUE
       ELSE ""

\* /forward [tool] and /forwardi [tool]; arg = "" when no tool is named
HandleForward(arg, interactive) ==
  /\ pc = "prompt"
  /\ cmds < MaxCmds
  /\ cmds' = cmds + 1
  /\ IF ~HasResponse(conversationHistory)
     THEN /\ fx' = << Fx("nothingToForward", << >>) >>
          /\ UNCHANGED <<pc, activeTool, sessions, ptyManagers,
                         conversationHistory, requestInProgress, rl, rawMode,
                         bridge, inject, historyAtCall>>
     ELSE LET sourceTool == LastResponse(conversationHistory).tool
              targetTool == ForwardTarget(sourceTool, arg)
          IN IF targetTool = "" \/ targetTool = sourceTool
             THEN /\ fx' = << Fx("noTarget", << >>) >>
                  /\ UNCHANGED <<pc, activeTool, sessions, ptyManagers,
                                 conversationHistory, requestInProgress, rl,
                                 rawMode, bridge, inject, historyAtCall>>
             ELSE /\ activeTool' = targetTool
                  /\ IF interactive
                     THEN /\ EnterInteractiveModeWith(targetTool, "prompt")
                          /\ UNCHANGED <<conversationHistory, requestInProgress,
                                         historyAtCall>>
                     ELSE /\ SendToToolBegin(targetTool, "forward")
                          /\ UNCHANGED <<rl, rawMode, bridge, inject>>
  /\ UNCHANGED <<isTTY, legacy, availableTools, termSize, adapters, cursorShown, entering, now, stdinChunk>>

(***************************************************************************)
(* Other commands, Ctrl+C                                                  *)
(***************************************************************************)
\* /claude and /gemini without -i
SwitchTool(tool) ==
  /\ pc = "prompt"
  /\ cmds < MaxCmds
  /\ cmds' = cmds + 1
  /\ activeTool' = tool
  /\ fx' = << >>
  /\ UNCHANGED <<pc, sessions, ptyManagers, conversationHistory,
                 requestInProgress, rl, isTTY, historyAtCall, legacy, availableTools, termSize, adapters, rawMode, cursorShown, entering,
                 bridge, now, stdinChunk, inject>>

LiveSids ==
  {k \in 1..Len(sessions) : \E t \in AllTools : ptyManagers[t] = k /\ ~IsDead(sessions[k])}

\* variant: only the manager of the active tool is killed and removed
KillAllManagers_ActiveOnly ==
  /\ sessions' = [k \in 1..Len(sessions) |->
                    IF k \in LiveSids /\ k = ptyManagers[activeTool]
                    THEN SessionExit(sessions[k]) ELSE sessions[k]]
  /\ ptyManagers' = [ptyManagers EXCEPT ![activeTool] = 0]

\* SDKSession.cleanup(): every live manager of the map is killed, the map
\* is cleared
KillAllManagers ==
  /\ sessions' = [k \in 1..Len(sessions) |->
                    IF k \in LiveSids THEN SessionExit(sessions[k]) ELSE sessions[k]]
  /\ ptyManagers' = [t \in AllTools |-> 0]

\* /clear
ClearCommand ==
  /\ pc = "prompt"
  /\ cmds < MaxCmds
  /\ cmds' = cmds + 1
  /\ KillAllManagers
  /\ conversationHistory' = << >>
  /\ fx' = << Fx("cleared", << >>) >>
  /\ UNCHANGED <<pc, activeTool, requestInProgress, rl, isTTY, historyAtCall, legacy, availableTools, termSize, adapters, rawMode,
                 cursorShown, entering, bridge, now, stdinChunk, inject>>

\* /quit, /exit, /cya
QuitCommand ==
  /\ pc = "prompt"
  /\ cmds < MaxCmds
  /\ cmds' = cmds + 1
  /\ KillAllManagers
  /\ pc' = "exited"
  /\ fx' = << Fx("goodbye", << >>) >>
  /\ UNCHANGED <<activeTool, conversationHistory, requestInProgress, rl, isTTY, historyAtCall, legacy, availableTools, termSize, adapters,
                 rawMode, cursorShown, entering, bridge, now, stdinChunk, inject>>

\* Ctrl+C while readline is open
Sigint ==
  /\ Running
  /\ rl
  /\ IF requestInProgress
     THEN /\ fx' = << Fx("requestInProgressNotice", << >>) >>
          /\ UNCHANGED <<pc, sessions, ptyManagers, rl>>
     ELSE /\ rl' = FALSE
          /\ KillAllManagers
          /\ pc' = "exited"
          /\ fx' = << Fx("goodbye", << >>) >>
  /\ UNCHANGED <<cmds, activeTool, conversationHistory, requestInProgress,
                 isTTY, historyAtCall, legacy, availableTools, termSize, adapters, rawMode, cursorShown, entering, bridge, now, stdinChunk,
                 inject>>

(***************************************************************************)
(* getOrCreateManager with either value of waitForReady                    *)
(***************************************************************************)
\* variant: the spawn is never awaited for readiness
SpawnAwaited_Never(waitForReady, g) == FALSE

\* await manager.spawn(cwd, waitForReady): a call that starts a subprocess
\* with waitForReady stays suspended until spawn() settles
SpawnAwaited(waitForReady, g) == waitForReady /\ g.spawned /\ ~g.threw

\* a call of getOrCreateManager(tool, waitForReady) up to its return or
\* its suspension; a rejection goes to the caller
GetOrCreateCall(tool, waitForReady) ==
  /\ pc = "prompt"
  /\ cmds < MaxCmds
  /\ \E spawnOk \in SpawnChoices(tool) :
       LET g == GetOrCreateManager(tool, spawnOk)
           suspended == SpawnAwaited(waitForReady, g)
       IN /\ sessions' = g.sessions
          /\ ptyManagers' = g.ptyManagers
          /\ pc' = IF suspended THEN "awaitReady" ELSE "prompt"
          /\ entering' = IF suspended
                         THEN [sid |-> g.sid, isReattach |-> FALSE,
                               isFirstLaunch |-> TRUE]
                         ELSE NoEntering
          /\ fx' = << Fx("getOrCreate", <<tool, waitForReady>>) >>
                   \o GetOrCreateFx(g)
                   \o (IF g.threw \/ suspended
                       THEN << >>
                       ELSE << Fx("return", <<g.sid, waitForReady>>) >>)
  /\ cmds' = cmds + 1
  /\ UNCHANGED <<activeTool, conversationHistory, requestInProgress, rl, isTTY, historyAtCall, legacy, availableTools, termSize,
                 adapters, rawMode, cursorShown, bridge, now, stdinChunk, inject>>

\* the output of a starting subprocess matches the ready pattern
ReadyDetected(sid) ==
  /\ Running
  /\ sessions[sid].state = "SPAWNING"
  /\ sessions' = [sessions EXCEPT
                    ![sid] = [SessionOutput(sessions[sid], "ready")
                                EXCEPT !.state = "READY"]]
  /\ fx' = << Fx("ready", <<sid>>) >>
  /\ UNCHANGED <<pc, cmds, activeTool, ptyManagers, conversationHistory,
                 requestInProgress, rl, isTTY, historyAtCall, legacy, availableTools, termSize, adapters, rawMode, cursorShown,
                 entering, bridge, now, stdinChunk, inject>>

\* spawn() has settled: the suspended call returns the manager
GetOrCreateReturn ==
  /\ pc = "awaitReady"
  /\ sessions[entering.sid].state # "SPAWNING"
  /\ pc' = "prompt"
  /\ entering' = NoEntering
  /\ fx' = << Fx("return", <<entering.sid, TRUE>>) >>
  /\ UNCHANGED <<cmds, activeTool, sessions, ptyManagers, conversationHistory,
                 requestInProgress, rl, isTTY, historyAtCall, legacy, availableTools, termSize, adapters, rawMode, cursorShown,
                 bridge, now, stdinChunk, inject>>
(***************************************************************************)
(* The second SDKSession class of the file                                 *)
(***************************************************************************)
\* the number of PTY processes the class spawns in a run
MaxLegacySpawns == 3

NotLegacy ==
  <<pc, cmds, activeTool, sessions, ptyManagers, conversationHistory,
    requestInProgress, rl, isTTY, historyAtCall, availableTools, termSize,
    adapters, rawMode, cursorShown, entering, bridge, now, stdinChunk, inject,
    fx>>

\* handleMetaCommand, case 'claude' / case 'gemini'
LegacySwitchTool(tool) ==
  /\ legacy.pc = "prompt"
  /\ legacy.activeTool # tool
  /\ legacy' = [legacy EXCEPT !.activeTool = tool]
  /\ UNCHANGED NotLegacy

\* enterInteractiveMode: the process of the active tool's entry is taken, or
\* a process is spawned and stored under the active tool; the terminal is
\* bridged to it
LegacyEnterInteractiveMode ==
  /\ legacy.pc = "prompt"
  /\ LET tool == legacy.activeTool
         existing == legacy.runningProcesses[tool]
     IN IF existing # 0
        THEN legacy' = [legacy EXCEPT !.pc = "interactive", !.attached = existing]
        ELSE /\ Len(legacy.procs) < MaxLegacySpawns
             /\ legacy' = [legacy EXCEPT
                   !.pc = "interactive",
                   !.procs = Append(@, [tool |-> tool, alive |-> TRUE]),
                   !.runningProcesses[tool] = Len(legacy.procs) + 1,
                   !.attached = Len(legacy.procs) + 1]
  /\ UNCHANGED NotLegacy

\* onStdinData with the detach key: cleanup() and resolve()
LegacyDetach ==
  /\ legacy.pc = "interactive"
  /\ legacy' = [legacy EXCEPT !.pc = "prompt", !.attached = 0]
  /\ UNCHANGED NotLegacy

\* the PTY process p exits: the onExit callback registered when it was
\* spawned deletes the entry of this.activeTool and sets the session flag
\* of this.activeTool; the exitHandler of the attach that is not detached
\* returns to the prompt
LegacyPtyExit(p) ==
  /\ p \in 1..Len(legacy.procs)
  /\ legacy.procs[p].alive
  /\ LET tool == legacy.activeTool
         bridged == legacy.pc = "interactive" /\ legacy.attached = p
     IN legacy' = [legacy EXCEPT
          !.procs[p].alive = FALSE,
          !.runningProcesses[tool] = 0,
          !.claudeHasSession = @ \/ tool = "claude",
          !.geminiHasSession = @ \/ tool # "claude",
          !.pc = IF bridged THEN "prompt" ELSE @,
          !.attached = IF bridged THEN 0 ELSE @]
  /\ UNCHANGED NotLegacy

(***************************************************************************)
(* Specifications                                                          *)
(***************************************************************************)
\* The command loop: every command, the bridge with the chunks of
\* CoreChunks, the subprocesses.  No lone escape is typed, so the clock
\* is not read; the typing timers stay pending (they change nothing but
\* what the subprocess receives).
Next ==
  \/ \E t \in Tools : EnterInteractiveMode(t)
  \/ EnterInteractiveAttach
  \/ SlashSlashCommand
  \/ EnterInteractiveModeWithCommand
  \/ \E d \in CoreChunks : OnStdinData(d)
  \/ \E sid \in 1..Len(sessions) : \E c \in OutChunks : PtyOutput(sid, c, MaxOut)
  \/ \E sid \in 1..Len(sessions) : PtyExit(sid)
  \/ SendRegular
  \/ \E ok \in BOOLEAN : SendToToolEnd(ok)
  \/ \E arg \in Tools \cup {""} : \E interactive \in BOOLEAN :
       HandleForward(arg, interactive)
  \/ \E t \in Tools : SwitchTool(t)
  \/ ClearCommand
  \/ QuitCommand
  \/ Sigint

Spec == Init /\ [][Next]_vars

\* The command loop with a terminal that is resized.
NextRegistry ==
  \/ Next
  \/ \E size \in Sizes : TerminalResize(size)

SpecRegistry == Init /\ [][NextRegistry]_vars

\* the start with an adapter registered for every tool
InitAll == Init /\ adapters = Tools

\* The escape window: /i and //command for the default tool, the keys of
\* KeyChunks, the clock, the typing timers, subprocess exit.
NextKeys ==
  \/ EnterInteractiveMode(DefaultTool)
  \/ EnterInteractiveAttach
  \/ SlashSlashCommand
  \/ EnterInteractiveModeWithCommand
  \/ \E k \in 1..Len(inject) : TypeNextChar(k)
  \/ \E d \in KeyChunks : OnStdinData(d)
  \/ Tick
  \/ \E sid \in 1..Len(sessions) : PtyExit(sid)

SpecKeys == InitAll /\ [][NextKeys]_vars

\* the number of typing timers that are pending at a time
MaxTimers == 2

\* paced injection: //command starts typing timers, the timers fire as time
\* passes, sessions are detached and exit
NextInject ==
  \/ Len(inject) < MaxTimers /\ SlashSlashCommand
  \/ EnterInteractiveModeWithCommand
  \/ \E k \in 1..Len(inject) : TypeNextChar(k)
  \/ TimerWait
  \/ OnStdinData(<<CTRL_BRACKET>>)
  \/ \E sid \in 1..Len(sessions) : PtyExit(sid)
  \/ \E t \in Tools : SwitchTool(t)

SpecInject == InitAll /\ [][NextInject]_vars

\* Replay: /i for the default tool, the detach key, subprocess output up to
\* MaxReplayOut chunks, subprocess exit.
NextReplay ==
  \/ EnterInteractiveMode(DefaultTool)
  \/ EnterInteractiveAttach
  \/ OnStdinData(<<CTRL_BRACKET>>)
  \/ \E sid \in 1..Len(sessions) : \E c \in OutChunks : PtyOutput(sid, c, MaxReplayOut)
  \/ \E sid \in 1..Len(sessions) : PtyExit(sid)
  \/ \E size \in Sizes : TerminalResize(size)

SpecReplay == InitAll /\ [][NextReplay]_vars

\* getOrCreateManager on its own: calls with either value of waitForReady,
\* readiness, output and exit of the subprocesses.
NextSpawn ==
  \/ \E t \in Tools : \E w \in BOOLEAN : GetOrCreateCall(t, w)
  \/ \E sid \in 1..Len(sessions) : ReadyDetected(sid)
  \/ GetOrCreateReturn
  \/ \E sid \in 1..Len(sessions) : \E c \in OutChunks : PtyOutput(sid, c, MaxReplayOut)
  \/ \E sid \in 1..Len(sessions) : PtyExit(sid)

SpecSpawn == Init /\ [][NextSpawn]_vars
\* A long conversation: n messages of earlier regular sends, the first
\* exchange with the other tool, the rest with the default tool.
LongHistory(n) ==
  [k \in 1..n |-> Message(IF k <= 2 THEN "gemini" ELSE DefaultTool,
                          IF k % 2 = 1 THEN "user" ELSE "assistant", "send")]

\* The command loop after a long conversation: the history is full, or one
\* exchange short of it.
InitHistory ==
  /\ pc = "prompt"
  /\ cmds = 0
  /\ activeTool = DefaultTool
  /\ sessions = << >>
  /\ ptyManagers = [t \in AllTools |-> 0]
  /\ \E n \in {MAX_HISTORY_SIZE - 2, MAX_HISTORY_SIZE} :
       conversationHistory = LongHistory(n)
  /\ requestInProgress = FALSE
  /\ rl = TRUE
  /\ isTTY = TRUE
  /\ historyAtCall = << >>
  /\ legacy = LegacyInit
  /\ availableTools = Tools
  /\ termSize = InitialSize
  /\ adapters = Tools
  /\ rawMode = FALSE
  /\ cursorShown = TRUE
  /\ entering = NoEntering
  /\ bridge = NoBridge
  /\ now = StartTime
  /\ stdinChunk = << >>
  /\ inject = << >>
  /\ fx = << >>

SpecHistory == InitHistory /\ [][Next]_vars

\* sendToTool on its own: calls at any time, the end of the request in
\* flight, and what gives the registry its entries.
NextSend ==
  \/ SendToToolAnyTime
  \/ \E ok \in BOOLEAN : SendToToolEnd(ok)
  \/ \E t \in Tools : SwitchTool(t)
  \/ \E t \in Tools : EnterInteractiveMode(t)
  \/ EnterInteractiveAttach
  \/ OnStdinData(<<CTRL_BRACKET>>)
  \/ \E sid \in 1..Len(sessions) : PtyExit(sid)

SpecSend == Init /\ [][NextSend]_vars

\* The command loop with the list of tools as built or with a third tool,
\* an adapter registered for each.
InitForward ==
  /\ pc = "prompt"
  /\ cmds = 0
  /\ activeTool = DefaultTool
  /\ sessions = << >>
  /\ ptyManagers = [t \in AllTools |-> 0]
  /\ conversationHistory = << >>
  /\ requestInProgress = FALSE
  /\ rl = TRUE
  /\ isTTY = TRUE
  /\ historyAtCall = << >>
  /\ legacy = LegacyInit
  /\ availableTools \in ToolLists
  /\ termSize = InitialSize
  /\ adapters = availableTools
  /\ rawMode = FALSE
  /\ cursorShown = TRUE
  /\ entering = NoEntering
  /\ bridge = NoBridge
  /\ now = StartTime
  /\ stdinChunk = << >>
  /\ inject = << >>
  /\ fx = << >>

\* Sends, /forward and /forwardi with every argument, tool switches, and
\* the bridge of an interactive forward.
NextForward ==
  \/ SendRegular
  \/ \E ok \in BOOLEAN : SendToToolEnd(ok)
  \/ \E arg \in AllTools \cup {""} : \E interactive \in BOOLEAN :
       HandleForward(arg, interactive)
  \/ \E t \in Tools : SwitchTool(t)
  \/ OnStdinData(<<CTRL_BRACKET>>)
  \/ \E sid \in 1..Len(sessions) : \E c \in OutChunks : PtyOutput(sid, c, MaxOut)
  \/ \E sid \in 1..Len(sessions) : PtyExit(sid)

SpecForward == InitForward /\ [][NextForward]_vars

\* One call of onStdinData: the bridge is up for the default tool's
\* session (alive, or exited while attached), a single escape may have been
\* forwarded at StartTime, and a chunk made of Pieces has been read.
EscapeTimings ==
  { <<StartTime, 0>>, <<StartTime, StartTime>>,
    <<StartTime + ESCAPE_WINDOW_MS - 1, StartTime>>,
    <<StartTime + ESCAPE_WINDOW_MS, StartTime>> }

InitChunk ==
  /\ pc = "interactive"
  /\ cmds = 1
  /\ activeTool = DefaultTool
  /\ \E alive \in BOOLEAN :
       LET attached == [SessionAttach(NewSession(DefaultTool, InitialSize)) EXCEPT !.buf = <<"text">>, !.received = <<"text">>]
       IN sessions = << IF alive THEN attached ELSE SessionExit(attached) >>
  /\ ptyManagers = [t \in AllTools |-> IF t = DefaultTool THEN 1 ELSE 0]
  /\ conversationHistory = << >>
  /\ requestInProgress = FALSE
  /\ rl = FALSE
  /\ isTTY = TRUE
  /\ historyAtCall = << >>
  /\ legacy = LegacyInit
  /\ availableTools = Tools
  /\ termSize = InitialSize
  /\ adapters = Tools
  /\ rawMode = TRUE
  /\ cursorShown = TRUE
  /\ entering = NoEntering
  /\ \E tm \in EscapeTimings :
       /\ now = tm[1]
       /\ bridge = [sid |-> 1, stdinListener |-> TRUE, resizeListener |-> TRUE,
                    detached |-> FALSE, cleanedUp |-> FALSE,
                    lastEscapeTime |-> tm[2]]
  /\ stdinChunk \in Chunks
  /\ inject = << >>
  /\ fx = << >>

NextChunk ==
  /\ stdinChunk # << >>
  /\ stdinChunk' = << >>
  /\ \/ StdinDrop(stdinChunk)
     \/ StdinDetach(stdinChunk)
     \/ StdinForward(stdinChunk)

SpecChunk == InitChunk /\ [][NextChunk]_vars

\* The second SDKSession class: /claude and /gemini, interactive mode with
\* detach, and the exit of PTY processes.
NextLegacy ==
  \/ \E t \in Tools : LegacySwitchTool(t)
  \/ LegacyEnterInteractiveMode
  \/ LegacyDetach
  \/ \E p \in 1..Len(legacy.procs) : LegacyPtyExit(p)

SpecLegacy == Init /\ [][NextLegacy]_vars

(***************************************************************************)
(* Properties                                                              *)
(***************************************************************************)
\* the last step was a call of onStdinData
StdinStep(f) == Len(f) > 0 /\ f[1].op = "stdin"
ChunkOf(f) == f[1].arg[1]
TimeOf(f) == f[1].arg[2]
WindowOf(f) == f[1].arg[3]

\* what a call of onStdinData wrote to the session
StdinWrites(f) == {k \in 1..Len(f) : f[k].op = "ptyWrite" /\ f[k].arg[4] = "stdin"}

DetachBytes == {CTRL_BRACKET, CTRL_BACKSLASH, CTRL_CARET, CTRL_UNDERSCORE}
ContainsDetachByte(d) == \E i \in 1..Len(d) : d[i] \in DetachBytes
ContainsCsiUDetach(d) ==
  \E n \in 1..Len(CSI_U_DETACH_SEQS) : \E i \in 1..Len(d) : HasAt(d, CSI_U_DETACH_SEQS[n], i)
ContainsTwoEscapes(d) == \E i \in 1..(Len(d) - 1) : d[i] = 27 /\ d[i + 1] = 27

AttachedTools ==
  {t \in Tools : ptyManagers[t] # 0 /\ sessions[ptyManagers[t]].attached}

\* C1: in every reachable state at most one session of the registry has
\* attached = true.
C1_AtMostOneAttached == Cardinality(AttachedTools) <= 1

\* one tool's session is attached while the other tool's session, attached
\* earlier, is detached
C1_Witness ==
  \E t1 \in Tools : \E t2 \in Tools \ {t1} :
    /\ ptyManagers[t1] # 0 /\ sessions[ptyManagers[t1]].state = "ATTACHED"
    /\ ptyManagers[t2] # 0 /\ sessions[ptyManagers[t2]].state = "DETACHED"

\* C2: while the session is attached, a chunk that holds 0x1D, 0x1C, 0x1E
\* or 0x1F at any position detaches the session and leaves raw mode off.
C2_DetachByteDetaches ==
  [][ (/\ stdinChunk # << >>
       /\ ContainsDetachByte(stdinChunk)
       /\ sessions[bridge.sid].state = "ATTACHED")
      => (/\ sessions'[bridge.sid].state = "DETACHED"
          /\ rawMode' = FALSE) ]_vars

\* a detach byte that is not the first byte of its chunk has detached
C2_Witness ==
  /\ StdinStep(fx)
  /\ Len(ChunkOf(fx)) >= 2
  /\ ChunkOf(fx)[1] \notin DetachBytes
  /\ ContainsDetachByte(ChunkOf(fx))
  /\ sessions[bridge.sid].state = "DETACHED"
  /\ ~rawMode

\* C3: while the session is attached, a chunk that holds the CSI-u encoding
\* of a detach chord detaches the session and restores the terminal.
C3_CsiUChordDetaches ==
  [][ (/\ stdinChunk # << >>
       /\ ContainsCsiUDetach(stdinChunk)
       /\ sessions[bridge.sid].state = "ATTACHED")
      => (/\ sessions'[bridge.sid].state = "DETACHED"
          /\ rawMode' = FALSE
          /\ cursorShown') ]_vars

\* C4: when the subprocess of the attached session exits, the terminal is
\* restored and the command loop has control again, with no further input.
C4_ExitReturnsToLoop ==
  [][ (/\ pc = "interactive"
       /\ sessions[bridge.sid].state = "ATTACHED"
       /\ IsDead(sessions'[bridge.sid]))
      => (/\ pc' = "prompt"
          /\ rawMode' = FALSE
          /\ cursorShown') ]_vars

\* C5: whenever the command loop has control, stdin is not in raw mode and
\* the cursor is shown.
LoopHasControl == pc \in {"prompt", "preCommand", "sending"}

DetachOrder ==
  <<"removeStdinListener", "snapshot", "detach", "clearLine", "focusOff",
    "pasteOff", "kbdReset", "showCursor", "rawOff", "resolve">>

FirstIndexOf(ops, op) ==
  LET idx == {k \in 1..Len(ops) : ops[k] = op}
  IN IF idx = {} THEN 0 ELSE CHOOSE k \in idx : \A j \in idx : k <= j

InOrder(ops, order) ==
  \A n \in 1..Len(order) :
    /\ FirstIndexOf(ops, order[n]) > 0
    /\ n > 1 => FirstIndexOf(ops, order[n - 1]) < FirstIndexOf(ops, order[n])

C6_DetachOrder ==
  /\ HasOp(fx, "resolve") =>
       /\ InOrder(Ops(fx), DetachOrder)
       /\ Ops(fx)[Len(fx)] = "resolve"
       /\ StdinWrites(fx) = {}
       /\ ~bridge.stdinListener
  /\ StdinWrites(fx) # {} => ~bridge.detached
  /\ bridge.detached => ~bridge.stdinListener

\* a detach has just been carried out
C6_Witness ==
  /\ StdinStep(fx)
  /\ HasOp(fx, "resolve")
  /\ pc = "prompt"
  /\ sessions[bridge.sid].state = "DETACHED"

SingleEscapeForwarded(f) ==
  /\ StdinStep(f)
  /\ ChunkOf(f) = <<27>>
  /\ ~HasOp(f, "resolve")

C8_SecondEscapeDetaches ==
  [][ (/\ StdinStep(fx')
       /\ fx' # fx \/ bridge' # bridge
       /\ ChunkOf(fx') = <<27>>
       /\ sessions[bridge.sid].state = "ATTACHED")
      => (/\ (SingleEscapeForwarded(fx) /\ now - TimeOf(fx) < 500)
               => (HasOp(fx', "resolve") /\ sessions'[bridge.sid].state = "DETACHED")
          /\ HasOp(fx, "attach") => ~HasOp(fx', "resolve")) ]_vars

\* an escape that came after the window of an earlier one had expired has
\* opened a window of its own, and the next escape has detached within it
C8_Witness ==
  /\ StdinStep(fx)
  /\ ChunkOf(fx) = <<27>>
  /\ HasOp(fx, "resolve")
  /\ WindowOf(fx) > StartTime
  /\ TimeOf(fx) - WindowOf(fx) < 500

\* C9: while the session is attached, a single-escape chunk that follows a
\* single-escape chunk by 500 ms or more does not detach, and each of the
\* two escapes is written to the subprocess.
C9_LateEscapeForwarded ==
  [][ (/\ StdinStep(fx')
       /\ fx' # fx \/ bridge' # bridge
       /\ ChunkOf(fx') = <<27>>
       /\ sessions[bridge.sid].state = "ATTACHED"
       /\ SingleEscapeForwarded(fx)
       /\ now - TimeOf(fx) >= 500)
      => (/\ ~HasOp(fx', "resolve")
          /\ sessions'[bridge.sid].state = "ATTACHED"
          /\ \E k \in StdinWrites(fx) : fx[k].arg[2] = <<27>>
          /\ \E k \in StdinWrites(fx') : fx'[k].arg[2] = <<27>>) ]_vars

\* a second escape, 500 ms after the first, has been written
C9_Witness ==
  /\ StdinStep(fx)
  /\ ChunkOf(fx) = <<27>>
  /\ WindowOf(fx) # 0
  /\ TimeOf(fx) - WindowOf(fx) = 500
  /\ \E k \in StdinWrites(fx) : fx[k].arg[2] = <<27>>

\* C10: no byte of a focus report, a Device-Attributes response or a
\* keyboard-protocol acknowledgement held by a chunk is written to the
\* subprocess.
ReportSeqs ==
  { <<27, 91, 73>>, <<27, 91, 79>>,
    <<27, 91, 63, 49, 59, 50, 99>>, <<27, 91, 62, 49, 99>>,
    <<27, 91, 63, 49, 117>> }

\* positions of the chunk that lie in one of the reports it holds
ReportPositions(d) ==
  {k \in 1..Len(d) :
     \E r \in ReportSeqs : \E i \in 1..Len(d) :
       HasAt(d, r, i) /\ k >= i /\ k < i + Len(r)}

WrittenPositions(f) ==
  {p \in 1..Len(ChunkOf(f)) :
     \E k \in StdinWrites(f) : \E j \in 1..Len(f[k].arg[3]) : f[k].arg[3][j] = p}

C10_ReportsNotForwarded ==
  StdinStep(fx) => ReportPositions(ChunkOf(fx)) \cap WrittenPositions(fx) = {}

\* a key typed next to a Device-Attributes response has been written, the
\* response has not
C10_Witness ==
  /\ StdinStep(fx)
  /\ ChunkOf(fx) = <<97, 27, 91, 62, 49, 99>>
  /\ \E k \in StdinWrites(fx) : fx[k].arg[2] = <<97>>

\* C11: no byte of a cursor-position report (ESC[<row>;<col>R) held by a
\* chunk is written to the subprocess.
CursorReportSeqs == { <<27, 91, 49, 59, 49, 82>> }

CursorReportPositions(d) ==
  {k \in 1..Len(d) :
     \E r \in CursorReportSeqs : \E i \in 1..Len(d) :
       HasAt(d, r, i) /\ k >= i /\ k < i + Len(r)}

C11_CursorReportsNotForwarded ==
  StdinStep(fx) => CursorReportPositions(ChunkOf(fx)) \cap WrittenPositions(fx) = {}

\* C12: in the step that handles a chunk as a detach trigger, nothing of
\* the chunk is written to the subprocess.
C12_TriggerNotForwarded ==
  (StdinStep(fx) /\ (HasOp(fx, "detach") \/ HasOp(fx, "resolve")))
    => (StdinWrites(fx) = {} /\ WrittenPositions(fx) = {} /\ ~HasOp(fx, "ptyWrite"))

\* a chunk with an ordinary key before the detach byte has detached a live
\* session
C12_Witness ==
  /\ StdinStep(fx)
  /\ ChunkOf(fx) = <<CH_a, 29>>
  /\ HasOp(fx, "detach")
  /\ sessions[bridge.sid].state = "DETACHED"

\* C13: a chunk that is not empty after filtering and holds no detach
\* trigger is written to the subprocess exactly once, as the bytes that the
\* filtering has left of it.
NoTrigger(d, t, last) ==
  /\ ~ContainsDetachByte(d)
  /\ ~ContainsTwoEscapes(d)
  /\ ~ContainsCsiUDetach(d)
  /\ ~ContainsCsiUDetach(CharsAt(d, FilterChunk(d)))
  /\ ~(d = <<27>> /\ t - last < 500)

BytesAt(d, pos) == [j \in 1..Len(pos) |-> d[pos[j]]]

C13_ForwardedVerbatimOnce ==
  [][ (/\ stdinChunk # << >>
       /\ sessions[bridge.sid].state = "ATTACHED"
       /\ NoTrigger(stdinChunk, now, bridge.lastEscapeTime)
       /\ FilterChunk(stdinChunk) # << >>)
      => (/\ Cardinality(StdinWrites(fx')) = 1
          /\ \A k \in StdinWrites(fx') :
               fx'[k].arg[2] = BytesAt(stdinChunk, FilterChunk(stdinChunk))) ]_vars

\* the same for chunks that are valid UTF-8
C13_ValidChunksForwardedOnce ==
  [][ (/\ stdinChunk # << >>
       /\ \A i \in 1..Len(stdinChunk) : stdinChunk[i] < 128
       /\ sessions[bridge.sid].state = "ATTACHED"
       /\ NoTrigger(stdinChunk, now, bridge.lastEscapeTime)
       /\ FilterChunk(stdinChunk) # << >>)
      => (/\ Cardinality(StdinWrites(fx')) = 1
          /\ \A k \in StdinWrites(fx') :
               fx'[k].arg[2] = BytesAt(stdinChunk, FilterChunk(stdinChunk))) ]_vars

\* C14: on every DETACHED -> ATTACHED transition of a session whose buffer
\* is not empty, the screen is cleared and the buffer, without its focus
\* reports, is written to the terminal before the session is attached.
NoFocus(chunks) == SelectSeq(chunks, LAMBDA c : c # "focus")

ShownAs(chunks) ==
  [n \in 1..Len(chunks) |->
     [op |-> IF chunks[n] = "hideCursor" THEN "hideCursor" ELSE "stdout",
      arg |-> <<chunks[n]>>]]

\* f clears the screen, writes exactly the given chunks, then attaches
ReplaysThenAttaches(f, chunks) ==
  \E i \in 1..Len(f) : \E j \in 1..Len(f) :
    /\ i < j
    /\ f[i].op = "clearScreen"
    /\ f[j].op = "attach"
    /\ SubSeq(f, i + 1, j - 1) = ShownAs(chunks)

C14_ReplayOnEveryReattach ==
  [][ \A k \in 1..Len(sessions) :
        (/\ sessions[k].state = "DETACHED"
         /\ Len(sessions[k].buf) > 0
         /\ sessions'[k].state = "ATTACHED")
        => ReplaysThenAttaches(fx', NoFocus(sessions[k].buf)) ]_vars

\* C15: what is replayed on reattach is everything the subprocess has
\* printed since it was started, less what overflow has dropped from the
\* front, without the focus reports.
LastOf(chunks, n) ==
  IF Len(chunks) > n THEN SubSeq(chunks, Len(chunks) - n + 1, Len(chunks)) ELSE chunks

C15_ReplayIsReceivedOutput ==
  [][ (pc = "animating" /\ HasOp(fx', "clearScreen"))
      => ReplaysThenAttaches(fx',
           NoFocus(LastOf(sessions[entering.sid].received, BufCap))) ]_vars

\* a replay after overflow: three chunks were printed, the first is gone,
\* the focus report is left out, the last is shown
C15_Witness ==
  /\ pc = "interactive"
  /\ HasOp(fx, "clearScreen")
  /\ Len(sessions[bridge.sid].received) = 3
  /\ sessions[bridge.sid].received[2] = "focus"
  /\ ReplaysThenAttaches(fx, <<sessions[bridge.sid].received[3]>>)
  /\ sessions[bridge.sid].received[3] # "focus"

\* a step in which getOrCreate is called for the tool that is active after it
GetOrCreateStep ==
  /\ pc \in {"prompt", "preCommand"}
  /\ pc' \in {"animating", "interactive", "crashed"}

Registered(t) == ptyManagers[t] # 0

LiveFor(t) == Registered(t) /\ sessions[ptyManagers[t]].state # "DEAD"

\* C16: when the spawn fails inside getOrCreate, the registry holds no
\* session for the tool afterwards.
C16_FailedSpawnNotRegistered ==
  [][ (/\ GetOrCreateStep
       /\ Len(sessions') > Len(sessions)
       /\ sessions'[Len(sessions')].state = "DEAD")
      => (pc' = "crashed" /\ ptyManagers'[activeTool'] = 0) ]_vars

\* C17: getOrCreate for a tool with a live session returns that session,
\* spawns nothing and leaves the registry, the session's state and its
\* buffer as they are (the callers that attach at once change the state to
\* ATTACHED in the same step).
C17_LiveSessionReturned ==
  [][ (GetOrCreateStep /\ LiveFor(activeTool'))
      => LET k == ptyManagers[activeTool']
         IN /\ ptyManagers' = ptyManagers
            /\ Len(sessions') = Len(sessions)
            /\ ~HasOp(fx', "spawn")
            /\ sessions'[k].buf = sessions[k].buf
            /\ sessions'[k].received = sessions[k].received
            /\ \A j \in 1..Len(sessions) : j # k => sessions'[j] = sessions[j]
            /\ pc' = "animating" => (sessions' = sessions /\ entering'.sid = k)
            /\ pc' = "interactive"
                 => (bridge'.sid = k /\ sessions'[k].state = "ATTACHED") ]_vars

\* //command has attached a session that was running and had printed before
C17_Witness ==
  /\ pc = "interactive"
  /\ Len(inject) > 0
  /\ Len(fx) > 0 /\ fx[1].op = "attach"
  /\ sessions[bridge.sid].state = "ATTACHED"
  /\ Len(sessions[bridge.sid].received) > 0

\* C18: a detach neither kills nor unregisters the session, and the next /i
\* for the same tool, with nothing in between, finds that session and
\* spawns nothing.
C18_DetachKeepsSession ==
  [][ /\ (pc = "interactive" /\ pc' = "prompt")
         => (/\ ptyManagers' = ptyManagers
             /\ Len(sessions') = Len(sessions)
             /\ \A k \in 1..Len(sessions) :
                  /\ (sessions'[k].state = "DEAD") = (sessions[k].state = "DEAD")
                  /\ sessions'[k].pty = sessions[k].pty
                  /\ sessions'[k].buf = sessions[k].buf
             /\ sessions[bridge.sid].state = "ATTACHED"
                  => (/\ sessions'[bridge.sid].state = "DETACHED"
                      /\ ptyManagers'[sessions[bridge.sid].tool] = bridge.sid))
      /\ (/\ pc = "prompt" /\ pc' = "animating"
          /\ HasOp(fx, "resolve")
          /\ sessions[bridge.sid].state = "DETACHED"
          /\ activeTool' = sessions[bridge.sid].tool)
         => (/\ entering'.sid = bridge.sid
             /\ ~HasOp(fx', "spawn")
             /\ sessions' = sessions) ]_vars

\* /i after a detach has found the session that was detached
C18_Witness ==
  /\ pc = "animating"
  /\ bridge.detached
  /\ entering.sid = bridge.sid
  /\ ~HasOp(fx, "spawn")
  /\ sessions[entering.sid].state = "DETACHED"

\* C19: the silent kill of sendToTool prints no exit notice and removes the
\* registry entry, and a getOrCreate for a tool without a registry entry
\* creates a session that did not exist before.
C19_SilentKillUnregisters ==
  [][ /\ HasOp(fx', "kill") /\ pc' = "sending"
         => (/\ ~HasOp(fx', "exitNotice")
             /\ ptyManagers'[activeTool'] = 0
             /\ \A k \in 1..Len(sessions) :
                  sessions[k].tool = activeTool' => sessions'[k].state = "DEAD")
      /\ (GetOrCreateStep /\ ~Registered(activeTool') /\ activeTool' \in adapters)
         => (/\ Len(sessions') = Len(sessions) + 1
             /\ ptyManagers'[activeTool'] = Len(sessions')
             /\ HasOp(fx', "spawn")) ]_vars

\* after the silent kill of a session that had been attached, a fresh one
\* has been spawned for the same tool
C19_Witness ==
  /\ pc = "animating"
  /\ HasOp(fx, "spawn")
  /\ Len(conversationHistory) > 0
  /\ entering.sid = 2
  /\ sessions[1].tool = sessions[2].tool
  /\ sessions[1].state = "DEAD"
  /\ sessions[2].state = "SPAWNING"
  /\ bridge.sid = 1 /\ bridge.detached

\* C20: getOrCreate for a tool that has no registered adapter fails with an
\* unknown-tool error, launches no subprocess and leaves the registry as it
\* is.
C20_UnknownToolFails ==
  [][ (GetOrCreateStep /\ activeTool' \notin adapters)
      => (/\ pc' = "crashed"
          /\ \E k \in 1..Len(fx') : fx'[k] = [op |-> "throw", arg |-> <<"unknownTool">>]
          /\ ~HasOp(fx', "spawn")
          /\ sessions' = sessions
          /\ ptyManagers' = ptyManagers) ]_vars

\* /i for a tool without an adapter has failed, after a session of another
\* tool had been registered
C20_Witness ==
  /\ pc = "crashed"
  /\ activeTool \notin adapters
  /\ HasOp(fx, "throw")
  /\ ptyManagers[activeTool] = 0
  /\ \E t \in Tools : ptyManagers[t] # 0

\* C21: a getOrCreateManager call that starts a subprocess with
\* waitForReady = true does not return in the step that starts it, and
\* returns only once output matching the ready pattern has been received
\* from that subprocess or the subprocess is gone; with waitForReady =
\* false the call returns in the same step with the session SPAWNING.
StartsSubprocess ==
  /\ pc = "prompt"
  /\ Len(sessions') = Len(sessions) + 1
  /\ HasOp(fx', "getOrCreate")
  /\ ~HasOp(fx', "throw")

ReadySeen(s) == \E i \in 1..Len(s.received) : s.received[i] = "ready"

C21_WaitForReady ==
  [][ /\ (StartsSubprocess /\ fx'[1].arg[2])
        => (pc' = "awaitReady" /\ ~HasOp(fx', "return"))
      /\ (StartsSubprocess /\ ~fx'[1].arg[2])
        => /\ pc' = "prompt"
           /\ HasOp(fx', "return")
           /\ sessions'[Len(sessions')].state = "SPAWNING"
      /\ (pc = "awaitReady" /\ pc' # "awaitReady")
        => \/ ReadySeen(sessions'[entering.sid])
           \/ IsDead(sessions'[entering.sid]) ]_vars

C21_Witness ==
  /\ pc = "prompt"
  /\ Len(fx) = 1
  /\ fx[1].op = "return"
  /\ fx[1].arg[2]
  /\ sessions[fx[1].arg[1]].state = "READY"
  /\ ReadySeen(sessions[fx[1].arg[1]])
\* C22: a terminal resize event sets the columns and rows of the PTY of an
\* attached session to the terminal's new size, and changes the dimensions
\* of no session that is not attached.
ResizeEvent == termSize' # termSize

C22_ResizeWhileAttached ==
  [][ ResizeEvent =>
        \A sid \in 1..Len(sessions) :
          IF sessions[sid].attached
          THEN sessions'[sid].size = termSize'
          ELSE sessions'[sid].size = sessions[sid].size ]_vars

\* the terminal has just been resized to a new size while a session is
\* attached, and the PTY of that session has that size
C22_Witness ==
  /\ pc = "interactive"
  /\ Len(fx) = 1
  /\ fx[1].op = "ptyResize"
  /\ sessions[fx[1].arg[1]].attached
  /\ sessions[fx[1].arg[1]].size = termSize
  /\ termSize # InitialSize

\* C23: the output buffer of a session never holds more than its cap,
\* whatever the session's state when output arrives, and it holds the
\* newest output: on overflow the oldest content is the one removed.
C23_BufferBounded ==
  \A sid \in 1..Len(sessions) :
    LET s == sessions[sid]
        n == IF Len(s.received) < BufCap THEN Len(s.received) ELSE BufCap
    IN /\ Len(s.buf) <= BufCap
       /\ s.buf = LastOf(s.received, n)

\* a detached session that has printed more than the cap
C23_Witness ==
  \E sid \in 1..Len(sessions) :
    /\ sessions[sid].state = "DETACHED"
    /\ Len(sessions[sid].received) > BufCap
    /\ Len(sessions[sid].buf) = BufCap
    /\ fx = << >>

\* C24: a session that is DEAD stays as it is in every step, whatever is
\* called on it; nothing is written to its subprocess, and a chunk typed
\* into the bridge of a dead session raises no error.
C24_DeadIsFinal ==
  [][ \A sid \in 1..Len(sessions) :
        IsDead(sessions[sid]) =>
          /\ sessions'[sid] = sessions[sid]
          /\ \A k \in 1..Len(fx') :
               fx'[k].op = "ptyWrite" => fx'[k].arg[1] # sid
          /\ (pc = "interactive" /\ bridge.sid = sid /\ StdinStep(fx'))
               => (~HasOp(fx', "throw") /\ pc' # "crashed") ]_vars

\* an ordinary key typed into the bridge of a session whose subprocess has
\* exited: nothing was written, the bridge is still up
C24_Witness ==
  /\ pc = "interactive"
  /\ IsDead(sessions[bridge.sid])
  /\ fx = << Fx("stdin", << <<CH_a>>, now, bridge.lastEscapeTime >>) >>

\* C25: what a tool printed while the user was in interactive mode is
\* never a message of the conversation history, so that it is never the
\* last assistant response, which is what /forward sends.
C25_InteractiveOutputNotCaptured ==
  \A k \in 1..Len(conversationHistory) :
    conversationHistory[k].origin # "interactive"

\* C26: the conversation history never holds more than MAX_HISTORY_SIZE
\* messages, and a message pushed to it (by a send or forward that begins,
\* by a response that arrives, by the capture on detach) leaves before it the
\* newest of the messages that were there: the oldest are the ones removed.
PushedOnto(h, h2) ==
  /\ Len(h2) = (IF Len(h) < MAX_HISTORY_SIZE THEN Len(h) + 1 ELSE MAX_HISTORY_SIZE)
  /\ SubSeq(h2, 1, Len(h2) - 1) = LastOf(h, Len(h2) - 1)

C26_HistoryBounded ==
  [][ /\ Len(conversationHistory') <= MAX_HISTORY_SIZE
      /\ (pc = "prompt" /\ pc' = "sending")
           => (/\ PushedOnto(conversationHistory, conversationHistory')
               /\ conversationHistory'[Len(conversationHistory')].role = "user")
      /\ (pc = "sending" /\ pc' = "prompt"
             /\ Len(conversationHistory') >= Len(conversationHistory))
           => (/\ PushedOnto(conversationHistory, conversationHistory')
               /\ conversationHistory'[Len(conversationHistory')].role = "assistant")
      /\ HasOp(fx', "historyPush")
           => (/\ PushedOnto(conversationHistory, conversationHistory')
               /\ conversationHistory'[Len(conversationHistory')].origin = "interactive")
    ]_vars

\* a send that began with a full history: the oldest message is gone, the
\* user message is the last
C26_Witness ==
  /\ pc = "sending"
  /\ Len(conversationHistory) = MAX_HISTORY_SIZE
  /\ conversationHistory[1] = Message("gemini", "assistant", "send")
  /\ conversationHistory[MAX_HISTORY_SIZE] = Message(DefaultTool, "user", "send")

\* C27: a sendToTool that starts while a request is in flight does nothing
\* but print a notice: no adapter call, no kill, the history, the sessions,
\* the registry and the request flag as they were; the flag is set while
\* the one request is in flight and is clear once that request has
\* finished, with a response or with an error.
C27_OneRequestInFlight ==
  [][ /\ requestInProgress' <=> (pc' = "sending")
      /\ (requestInProgress /\ cmds' # cmds)
           => (/\ fx' = << Fx("pleaseWait", << >>) >>
               /\ UNCHANGED <<pc, conversationHistory, sessions, ptyManagers,
                              requestInProgress>>)
      /\ (pc = "sending" /\ pc' # "sending") => ~requestInProgress' ]_vars

\* a sendToTool was refused while a request is in flight
C27_Witness ==
  /\ pc = "sending"
  /\ requestInProgress
  /\ fx = << Fx("pleaseWait", << >>) >>

\* C28: a forward that begins has a response to forward and makes another
\* tool than the one that gave it the active tool; a refused /forward
\* changes nothing, is refused for want of a response only when the
\* history has none and for want of a target only with three tools or
\* more; the target is never the source, is the other tool whatever the
\* argument when there are two tools, and is none with three tools or more
\* unless the argument names another tool.
ForwardBegins ==
  /\ pc = "prompt"
  /\ \/ /\ pc' = "sending"
        /\ conversationHistory'[Len(conversationHistory')].origin = "forward"
     \/ /\ Len(inject') = Len(inject) + 1
        /\ inject'[Len(inject')].kind = "prompt"

ForwardRefused ==
  /\ pc = "prompt"
  /\ cmds' # cmds
  /\ HasOp(fx', "nothingToForward") \/ HasOp(fx', "noTarget")

C28_ForwardTarget ==
  [][ /\ ForwardBegins =>
           /\ HasResponse(conversationHistory)
           /\ activeTool' \in availableTools
           /\ activeTool' # LastResponse(conversationHistory).tool
      /\ ForwardRefused =>
           /\ UNCHANGED <<pc, activeTool, conversationHistory, sessions, ptyManagers,
                          requestInProgress, rl, rawMode, bridge, inject>>
           /\ HasOp(fx', "nothingToForward") => ~HasResponse(conversationHistory)
           /\ HasOp(fx', "noTarget") => Cardinality(availableTools) >= 3
      /\ HasResponse(conversationHistory) =>
           LET source == LastResponse(conversationHistory).tool
               others == availableTools \ {source}
           IN \A arg \in AllTools \cup {""} :
                /\ ForwardTarget(source, arg) # source
                /\ Cardinality(availableTools) = 2
                     => ForwardTarget(source, arg) \in others
                /\ arg \in others => ForwardTarget(source, arg) = arg
                /\ (Cardinality(availableTools) >= 3 /\ arg \notin others)
                     => ForwardTarget(source, arg) = "" ]_vars

\* with three tools, a /forward that did not name a target was refused
\* after a response of the default tool, and nothing was sent
C28_Witness ==
  /\ pc = "prompt"
  /\ Cardinality(availableTools) = 3
  /\ fx = << Fx("noTarget", << >>) >>
  /\ HasResponse(conversationHistory)
  /\ activeTool = LastResponse(conversationHistory).tool

\* C29: how a chunk is handled (dropped, taken as a detach trigger,
\* forwarded) depends only on what the filtering leaves of it and on the
\* escape window: any chunk with the same filtered content would have been
\* handled the same way at that moment.
HandledAs(f) ==
  IF HasOp(f, "resolve") THEN "detach"
  ELSE IF StdinWrites(f) # {} THEN "forward"
  ELSE "drop"

Filtered(d) == CharsAt(d, FilterChunk(d))

C29_ClassifiedAfterFiltering ==
  (StdinStep(fx) /\ ~IsDead(sessions[bridge.sid]))
    => \A d \in Chunks :
         Filtered(d) = Filtered(ChunkOf(fx))
           => Classify(d, TimeOf(fx), WindowOf(fx)) = HandledAs(fx)

\* C30: this.ptyManagers changes only where getOrCreateManager stores a
\* new manager for the tool, where sendToTool removes the live manager it
\* has killed, and where cleanup() clears the map; bridging (attach, stdin,
\* detach), a terminal resize, output and the exit of a subprocess leave it
\* as it is.
StoresNewManager ==
  /\ HasOp(fx', "spawn")
  /\ Len(sessions') = Len(sessions) + 1
  /\ ptyManagers' = [ptyManagers EXCEPT ![activeTool'] = Len(sessions')]

RemovesKilledManager ==
  /\ pc' = "sending"
  /\ HasOp(fx', "kill")
  /\ ptyManagers' = [ptyManagers EXCEPT ![activeTool'] = 0]

ClearsMap ==
  /\ HasOp(fx', "cleared") \/ HasOp(fx', "goodbye")
  /\ \A t \in AllTools : ptyManagers'[t] = 0

C30_RegistryFrame ==
  [][ /\ (ptyManagers' # ptyManagers)
           => (StoresNewManager \/ RemovesKilledManager \/ ClearsMap)
      /\ (\/ pc = "interactive"
          \/ pc = "animating"
          \/ ResizeEvent
          \/ HasOp(fx', "exitNotice")
          \/ \E sid \in 1..Len(sessions) :
               Len(sessions'[sid].received) > Len(sessions[sid].received))
           => UNCHANGED ptyManagers ]_vars

\* a subprocess has just exited by itself: its dead manager is still in the
\* map
C30_Witness ==
  /\ Len(fx) = 1
  /\ fx[1].op = "exitNotice"
  /\ IsDead(sessions[fx[1].arg[1]])
  /\ \E t \in Tools : ptyManagers[t] = fx[1].arg[1]

(***************************************************************************)
(* Paced injection                                                         *)
(***************************************************************************)
\* typing timer k fires in this step and has a character left
TimerStep(k) ==
  /\ Len(inject') = Len(inject)
  /\ k \in 1..Len(inject)
  /\ inject'[k].rest # inject[k].rest

\* C31: once the session of a typing timer is DEAD, the timer issues no
\* write call for the characters that remain
C31_NoWriteAfterDeath ==
  [][\A k \in 1..Len(inject) :
       (TimerStep(k) /\ IsDead(sessions[inject[k].sid]))
         => ~HasOp(fx', "managerWrite")]_vars

\* the delay before the first character, from how the session was obtained
DelayFor(j) ==
  IF ~j.fresh THEN REATTACH_DELAY
  ELSE IF StartupDelay(sessions[j.sid].tool) = 0 THEN DEFAULT_STARTUP_DELAY
       ELSE StartupDelay(sessions[j.sid].tool)

\* C32: every step of a typing timer comes no earlier than the send delay
\* after the attach (100 ms for a live session that was reattached, the
\* adapter's startup delay or 2500 ms for a session spawned for it), calls
\* write once, with the next character of the command followed by CR, and
\* that character reaches a live session once
C32_PacedInOrder ==
  [][\A k \in 1..Len(inject) :
       TimerStep(k) =>
         LET j == inject[k]
             c == FullCommand[Len(FullCommand) - Len(j.rest) + 1]
         IN /\ now >= j.start + DelayFor(j)
            /\ inject'[k].rest = Tail(j.rest)
            /\ fx'[1] = Fx("managerWrite", <<j.sid, c, j.kind>>)
            /\ Len(SelectSeq(fx', LAMBDA e : e.op = "managerWrite")) = 1
            /\ IF IsDead(sessions[j.sid])
               THEN Len(fx') = 1
               ELSE /\ Len(fx') = 2
                    /\ fx'[2] = Fx("ptyWrite", <<j.sid, <<c>>, << >>, j.kind>>)
                    /\ inject'[k].typed \o inject'[k].rest = FullCommand]_vars

\* a command was typed in full into a session spawned for it, and another
\* into a live session that was reattached
C32_Witness ==
  \E k1, k2 \in 1..Len(inject) :
    /\ inject[k1].fresh /\ inject[k1].typed = FullCommand
    /\ ~inject[k2].fresh /\ inject[k2].typed = FullCommand
    /\ FullCommand[Len(FullCommand)] = CR

(***************************************************************************)
(* A send that fails                                                       *)
(***************************************************************************)
\* adapter.send failed in this step: the catch block ran
SendFails ==
  /\ pc = "sending"
  /\ pc' = "prompt"
  /\ Len(conversationHistory') < Len(conversationHistory)

\* C33: a send that fails leaves the history exactly as it was before the
\* call, whatever its length from 0 to MAX_HISTORY_SIZE
C33_FailedSendRestoresHistory ==
  [][SendFails => conversationHistory' = historyAtCall]_vars

(***************************************************************************)
(* The kill before a regular send                                          *)
(***************************************************************************)
\* sendToTool gets past the request check in this step
SendBegins == pc = "prompt" /\ pc' = "sending"

\* adapter.send settles in this step, with a response or with an error
SendSettles == pc = "sending" /\ pc' = "prompt"

\* C34: a regular send to a tool kills the live session of that tool
\* silently and removes its registry entry before the adapter is called,
\* and touches the session and the entry of no other tool; the adapter's
\* result, a response or an error, changes neither sessions nor registry
C34_KillBeforeSendFrame ==
  [][ /\ SendBegins =>
           LET T == activeTool'
               sid == ptyManagers[T]
           IN /\ ~NoLiveManager(T) =>
                   /\ IsDead(sessions'[sid])
                   /\ ptyManagers'[T] = 0
                   /\ fx' = << Fx("kill", <<sid>>) >>
              /\ NoLiveManager(T) => ptyManagers'[T] = ptyManagers[T] /\ fx' = << >>
              /\ \A t \in AllTools \ {T} : ptyManagers'[t] = ptyManagers[t]
              /\ Len(sessions') = Len(sessions)
              /\ \A k \in 1..Len(sessions) :
                   (k # sid \/ NoLiveManager(T)) => sessions'[k] = sessions[k]
      /\ SendSettles =>
           /\ NoLiveManager(activeTool)
           /\ sessions' = sessions
           /\ ptyManagers' = ptyManagers ]_vars

\* a send is in flight after the kill of the tool's session, while the
\* session of another tool is live and registered
C34_Witness ==
  /\ pc = "sending"
  /\ HasOp(fx, "kill")
  /\ \E t \in Tools \ {activeTool} : ~NoLiveManager(t)

(***************************************************************************)
(* The escape window                                                       *)
(***************************************************************************)
\* onStdinData runs in this step, for a single-escape chunk, while the
\* session is attached
EscapeArrives ==
  /\ StdinStep(fx')
  /\ fx' # fx \/ bridge' # bridge
  /\ ChunkOf(fx') = <<27>>
  /\ sessions[bridge.sid].state = "ATTACHED"

\* the step before handled a chunk that is not a single escape, while the
\* window of an earlier escape was open, and it is still open now
ChunkInsideWindow ==
  /\ StdinStep(fx)
  /\ ChunkOf(fx) # <<27>>
  /\ WindowOf(fx) > 0
  /\ now - WindowOf(fx) < ESCAPE_WINDOW_MS

\* C35: of two single escapes less than 500 ms apart, the second does not
\* detach and is forwarded when the chunk between them was forwarded to the
\* subprocess, and detaches when the chunk between them was filtered to
\* empty
C35_ForwardedChunkResetsWindow ==
  [][ (EscapeArrives /\ ChunkInsideWindow)
      => IF HandledAs(fx) = "forward"
         THEN /\ ~HasOp(fx', "resolve")
              /\ \E k \in StdinWrites(fx') : fx'[k].arg[2] = <<27>>
         ELSE Filtered(ChunkOf(fx)) = << >> => HasOp(fx', "resolve") ]_vars

\* a chunk that filters to empty was handled inside the window of an
\* escape, and the window is still the one of that escape
C35_Witness ==
  /\ pc = "interactive"
  /\ StdinStep(fx)
  /\ ChunkOf(fx) # << >>
  /\ Filtered(ChunkOf(fx)) = << >>
  /\ WindowOf(fx) > 0
  /\ now - WindowOf(fx) < ESCAPE_WINDOW_MS
  /\ bridge.lastEscapeTime = WindowOf(fx)
  /\ sessions[bridge.sid].state = "ATTACHED"

\* C36: the single escape that opens the window is written to the
\* subprocess when it arrives, as the one byte it is; the single escape
\* that detaches inside the window is not written
C36_OnlyFirstEscapeWritten ==
  [][ EscapeArrives
      => IF HasOp(fx', "resolve")
         THEN /\ WindowOf(fx') > 0
              /\ now - WindowOf(fx') < ESCAPE_WINDOW_MS
              /\ ~HasOp(fx', "ptyWrite")
              /\ StdinStep(fx) /\ ChunkOf(fx) = <<27>> /\ TimeOf(fx) = WindowOf(fx')
                   => /\ Cardinality(StdinWrites(fx)) = 1
                      /\ \A k \in StdinWrites(fx) : fx[k].arg[2] = <<27>>
         ELSE /\ Cardinality(StdinWrites(fx')) = 1
              /\ \A k \in StdinWrites(fx') : fx'[k].arg[2] = <<27>>
              /\ bridge'.lastEscapeTime = now ]_vars

\* the second escape has detached inside the window and nothing was
\* written for it
C36_Witness ==
  /\ StdinStep(fx)
  /\ ChunkOf(fx) = <<27>>
  /\ HasOp(fx, "resolve")
  /\ ~HasOp(fx, "ptyWrite")
  /\ WindowOf(fx) > 0
  /\ TimeOf(fx) - WindowOf(fx) < ESCAPE_WINDOW_MS

(***************************************************************************)
(* Detach runs once per attach                                             *)
(***************************************************************************)
CountOp(f, op) == Len(SelectSeq(f, LAMBDA e : e.op = op))

\* the number of messages that detaches have appended
Captured(h) == Len(SelectSeq(h, LAMBDA m : m.origin = "interactive"))

\* the effects of performDetach and of the terminal restoration
DetachOps ==
  {"detach", "resolve", "historyPush", "removeStdinListener",
   "removeResizeListener", "focusOff", "pasteOff", "kbdReset", "showCursor",
   "rawOff", "rlClose", "setupReadline", "notice"}

\* C37: within one attach, whatever triggers arrive, manager.detach() is
\* called at most once, the restoration sequence is written at most once,
\* at most one assistant message is appended and the promise is resolved at
\* most once: a step of the bridge has each of them at most once, and once
\* the bridge has detached no later step has any of them until the next
\* attach
C37_DetachOnce ==
  [][ fx' # fx =>
        /\ HasOp(fx', "stdin") =>
             /\ \A op \in DetachOps \ {"removeStdinListener"} : CountOp(fx', op) <= 1
             /\ CountOp(fx', "removeStdinListener") <= 2
             /\ Captured(conversationHistory') <= Captured(conversationHistory) + 1
        /\ (bridge.detached /\ bridge' = bridge) =>
             /\ \A op \in DetachOps \ {"rlClose"} : ~HasOp(fx', op)
             /\ Captured(conversationHistory') <= Captured(conversationHistory)
             /\ sessions'[bridge.sid].state \in {sessions[bridge.sid].state, "DEAD"} ]_vars

\* a detach has run in full, capture included, each effect once
C37_Witness ==
  /\ bridge.detached /\ bridge.cleanedUp
  /\ CountOp(fx, "detach") = 1
  /\ CountOp(fx, "resolve") = 1
  /\ CountOp(fx, "historyPush") = 1
  /\ CountOp(fx, "rawOff") = 1
  /\ Captured(conversationHistory) >= 1

(***************************************************************************)
(* Ctrl+C at the prompt                                                    *)
(***************************************************************************)
\* the SIGINT handler of readline runs in this step: it prints the notice
\* that a request is in progress, or it closes readline and the process
\* exits
SigintStep ==
  \/ fx' = << Fx("requestInProgressNotice", << >>) >> /\ fx' # fx
  \/ rl /\ ~rl' /\ pc' = "exited"

\* C38: Ctrl+C at the prompt while a request is in progress kills no
\* session, leaves registry and history unchanged and does not exit; while
\* no request is in progress it leaves no session alive and no entry in the
\* registry, and the process exits
C38_SigintRespectsRequest ==
  [][ SigintStep =>
        IF requestInProgress
        THEN /\ sessions' = sessions
             /\ ptyManagers' = ptyManagers
             /\ conversationHistory' = conversationHistory
             /\ requestInProgress'
             /\ pc' = pc /\ pc' # "exited"
        ELSE /\ \A k \in 1..Len(sessions') : IsDead(sessions'[k])
             /\ Len(sessions') = Len(sessions)
             /\ \A t \in AllTools : ptyManagers'[t] = 0
             /\ conversationHistory' = conversationHistory
             /\ pc' = "exited" ]_vars

\* Ctrl+C has ended the process with the sessions of two tools killed
C38_Witness ==
  /\ pc = "exited"
  /\ ~rl
  /\ fx = << Fx("goodbye", << >>) >>
  /\ \E k1, k2 \in 1..Len(sessions) :
       /\ sessions[k1].tool # sessions[k2].tool
       /\ IsDead(sessions[k1]) /\ IsDead(sessions[k2])
       /\ Len(sessions[k1].received) > 0
  /\ \A t \in AllTools : ptyManagers[t] = 0

(***************************************************************************)
(* The second SDKSession class: exit of a PTY process                      *)
(***************************************************************************)
\* the PTY process p exits in this step
LegacyExits(p) == legacy.procs[p].alive /\ ~legacy'.procs[p].alive

\* C39: when the PTY process of a tool exits, the entry removed from
\* runningProcesses is the entry of that tool, and the entry of no other
\* tool is removed, whichever tool is active at that moment
C39_LegacyExitRemovesOwnEntry ==
  [][\A p \in 1..Len(legacy.procs) :
       LegacyExits(p) =>
         LET T == legacy.procs[p].tool
         IN /\ legacy.runningProcesses[T] = p => legacy'.runningProcesses[T] = 0
            /\ \A t \in Tools \ {T} :
                 legacy'.runningProcesses[t] = legacy.runningProcesses[t]]_vars
====
